---- MODULE Spec2Model ----
(***************************************************************************)
(* KSD monitoring dashboard (ksddash.py) and its synthetic log generator   *)
(* (gen_data.py): the log directory, the clock, the generator, and the two *)
(* readers KSDMonitor.read_summary_log / KSDMonitor.read_transaction_log.  *)
(*                                                                         *)
(* Text is modelled as a sequence of one-character strings, so that        *)
(* strip/split/int/strptime/strftime/join are computed, not assumed.       *)
(* The two Hangul characters of the generator's result_file are written    *)
(* "U+CF54" and "U+B4DC"; the Korean business labels are written as ASCII  *)
(* stand-ins (the original label is in the comment next to each).          *)
(*                                                                         *)
(* gen is the generator process: the line of generate_test_data it is      *)
(* about to execute and what it has computed; a file has the time of the   *)
(* statement that wrote it.  namedFor records, for the properties, the     *)
(* minute each file was named for by its writer.                           *)
(*                                                                         *)
(* rd is the dashboard inside a call of a reader: the line it is about to  *)
(* execute and what it has read so far.  The generator and the producer    *)
(* are programs of their own and step between any two statements of a      *)
(* reader, and between a read and the display of what it returned.  A file *)
(* is read by one read after the other, each returning what the file holds *)
(* beyond the characters already read.  The loop over the lines is handed  *)
(* the lines a newline ends as they are read; a read that returns nothing  *)
(* hands it the last line when no newline ends it, and ends the loop when  *)
(* no line is left.  A writer that rewrites the file in place between two  *)
(* reads leaves the reader with the start of one text and the end of       *)
(* another.                                                                *)
(*                                                                         *)
(* history keeps the calls of a session that have returned, in order.      *)
(***************************************************************************)
EXTENDS Integers, Sequences, FiniteSets, TLC

VARIABLES clock, files, ret, shown, genRuns, produced, history, gen, namedFor, rd

vars == <<clock, files, ret, shown, genRuns, produced, history, gen, namedFor, rd>>

-----------------------------------------------------------------------------
(* Bounds of the model *)

\* how many files the external log producer drops into test_data
MaxFiles == 3
\* how many times gen_data.py is run
MaxGenRuns == 2
\* how many reads the dashboard makes over one directory, reruns included
MaxCalls == 6
\* how many times the calendar comes round to the same date and time
MaxYears == 1
\* how many reads of a session that repeats its reads are kept in history
MaxRepeats == 3

-----------------------------------------------------------------------------
(* Characters and strings *)

DigitChars == <<"0", "1", "2", "3", "4", "5", "6", "7", "8", "9">>

IsDigit(c) == c \in {"0", "1", "2", "3", "4", "5", "6", "7", "8", "9"}

DigitVal(c) == CHOOSE d \in 0..9 : DigitChars[d + 1] = c

\* str.strip() with no argument removes these (of the characters modelled)
IsSpace(c) == c \in {" ", "\t", "\n"}

\* Unicode code point of a character: the order sorted() compares by
CodePoint(c) ==
    CASE c = "\t" -> 9
      [] c = "\n" -> 10
      [] c = " " -> 32
      [] c = "+" -> 43
      [] c = "-" -> 45
      [] c = "." -> 46
      [] IsDigit(c) -> 48 + DigitVal(c)
      [] c = ":" -> 58
      [] c = "C" -> 67
      [] c = "D" -> 68
      [] c = "E" -> 69
      [] c = "N" -> 78
      [] c = "R" -> 82
      [] c = "S" -> 83
      [] c = "V" -> 86
      [] c = "_" -> 95
      [] c = "a" -> 97
      [] c = "b" -> 98
      [] c = "c" -> 99
      [] c = "f" -> 102
      [] c = "x" -> 120
      [] c = "U+B4DC" -> 46300
      [] c = "U+CF54" -> 53076

\* Python's str < str: lexicographic by code point, a proper prefix is smaller
RECURSIVE StrLessFrom(_, _, _)
StrLessFrom(a, b, i) ==
    IF i > Len(b) THEN FALSE
    ELSE IF i > Len(a) THEN TRUE
    ELSE IF a[i] = b[i] THEN StrLessFrom(a, b, i + 1)
    ELSE CodePoint(a[i]) < CodePoint(b[i])

StrLess(a, b) == StrLessFrom(a, b, 1)

\* sorted(list of str): ascending, stable
RECURSIVE InsertSorted(_, _)
InsertSorted(sorted, s) ==
    IF sorted = <<>> THEN <<s>>
    ELSE IF StrLess(s, Head(sorted)) THEN <<s>> \o sorted
    ELSE <<Head(sorted)>> \o InsertSorted(Tail(sorted), s)

RECURSIVE SortedFrom(_, _, _)
SortedFrom(lines, i, acc) ==
    IF i > Len(lines) THEN acc
    ELSE SortedFrom(lines, i + 1, InsertSorted(acc, lines[i]))

sorted(lines) == SortedFrom(lines, 1, <<>>)

\* sep.join(lines)
RECURSIVE JoinFrom(_, _, _)
JoinFrom(lines, sep, i) ==
    IF i > Len(lines) THEN <<>>
    ELSE IF i = Len(lines) THEN lines[i]
    ELSE lines[i] \o sep \o JoinFrom(lines, sep, i + 1)

\* a faulty join: the lines are written one after the other, no separator
join_NoSeparator(sep, lines) == JoinFrom(lines, <<>>, 1)

join(sep, lines) == JoinFrom(lines, sep, 1)

\* "for line in f": the text cut after every newline and at every place of
\* ends, where the end of the file handed the loop a line that no newline
\* ended; a last piece without a newline is a line too, and the empty text
\* has no line
RECURSIVE LineEndAt(_, _, _)
LineEndAt(text, ends, i) ==
    IF i >= Len(text) THEN Len(text)
    ELSE IF text[i] = "\n" \/ i \in ends THEN i ELSE LineEndAt(text, ends, i + 1)

RECURSIVE LinesFromAt(_, _, _)
LinesFromAt(text, ends, start) ==
    IF start > Len(text) THEN <<>>
    ELSE <<SubSeq(text, start, LineEndAt(text, ends, start))>>
         \o LinesFromAt(text, ends, LineEndAt(text, ends, start) + 1)

\* the lines of a text read in one go
FileLines(text) == LinesFromAt(text, {}, 1)

\* the lines of a file as a reader of it was handed them
LinesHanded(file) == LinesFromAt(file.text, file.ends, 1)

\* str.strip()
RECURSIVE FirstNonSpace(_, _)
FirstNonSpace(s, i) ==
    IF i > Len(s) THEN i
    ELSE IF IsSpace(s[i]) THEN FirstNonSpace(s, i + 1) ELSE i

RECURSIVE LastNonSpace(_, _)
LastNonSpace(s, i) ==
    IF i < 1 THEN i
    ELSE IF IsSpace(s[i]) THEN LastNonSpace(s, i - 1) ELSE i

strip(s) == SubSeq(s, FirstNonSpace(s, 1), LastNonSpace(s, Len(s)))

\* str.split(sep) for a one-character separator: always at least one field
RECURSIVE SplitFrom(_, _, _, _)
SplitFrom(s, sep, start, i) ==
    IF i > Len(s) THEN <<SubSeq(s, start, Len(s))>>
    ELSE IF s[i] = sep
      THEN <<SubSeq(s, start, i - 1)>> \o SplitFrom(s, sep, i + 1, i + 1)
    ELSE SplitFrom(s, sep, start, i + 1)

split(s, sep) == SplitFrom(s, sep, 1, 1)

\* int(str): surrounding whitespace, one optional sign, decimal digits with
\* single underscores between digits; anything else raises ValueError
RECURSIVE DigitsOk(_, _)
DigitsOk(s, i) ==
    IF i > Len(s) THEN TRUE
    ELSE IF IsDigit(s[i]) THEN DigitsOk(s, i + 1)
    ELSE s[i] = "_" /\ i > 1 /\ i < Len(s) /\ IsDigit(s[i - 1])
         /\ IsDigit(s[i + 1]) /\ DigitsOk(s, i + 1)

RECURSIVE DigitsValue(_, _, _)
DigitsValue(s, i, acc) ==
    IF i > Len(s) THEN acc
    ELSE IF s[i] = "_" THEN DigitsValue(s, i + 1, acc)
    ELSE DigitsValue(s, i + 1, acc * 10 + DigitVal(s[i]))

IntResult(negative, body) ==
    IF Len(body) > 0 /\ DigitsOk(body, 1)
      THEN [ok |-> TRUE,
            val |-> IF negative THEN 0 - DigitsValue(body, 1, 0)
                    ELSE DigitsValue(body, 1, 0)]
    ELSE [ok |-> FALSE, val |-> 0]

IntOfStripped(t) ==
    IF Len(t) > 0 /\ t[1] \in {"+", "-"}
      THEN IntResult(t[1] = "-", SubSeq(t, 2, Len(t)))
    ELSE IntResult(FALSE, t)

int(str) == IntOfStripped(strip(str))

\* f"{n:02d}" and f"{n:04d}" (also strftime's zero-padded fields)
Fmt2(n) == <<DigitChars[((n \div 10) % 10) + 1], DigitChars[(n % 10) + 1]>>

Fmt4(n) == Fmt2(n \div 100) \o Fmt2(n % 100)

-----------------------------------------------------------------------------
(* datetime: naive local date-times at second precision *)

DateTime(y, mo, d, h, mi, s) ==
    [year |-> y, month |-> mo, day |-> d, hour |-> h, minute |-> mi, second |-> s]

IsLeap(y) == (y % 4 = 0 /\ y % 100 # 0) \/ y % 400 = 0

DaysInMonth(y, mo) ==
    IF mo = 2 THEN (IF IsLeap(y) THEN 29 ELSE 28)
    ELSE IF mo \in {4, 6, 9, 11} THEN 30 ELSE 31

\* a < b on datetime
DtLess(a, b) ==
    LET ka == <<a.year, a.month, a.day, a.hour, a.minute, a.second>>
        kb == <<b.year, b.month, b.day, b.hour, b.minute, b.second>>
    IN  \E i \in 1..6 : ka[i] < kb[i] /\ \A j \in 1..(i - 1) : ka[j] = kb[j]

\* a <= b on datetime
DtLeq(a, b) == a = b \/ DtLess(a, b)

\* t + timedelta(days=1), t - timedelta(days=1)
NextDay(t) ==
    IF t.day < DaysInMonth(t.year, t.month) THEN [t EXCEPT !.day = @ + 1]
    ELSE IF t.month < 12 THEN [t EXCEPT !.day = 1, !.month = @ + 1]
    ELSE [t EXCEPT !.day = 1, !.month = 1, !.year = @ + 1]

PrevDay(t) ==
    IF t.day > 1 THEN [t EXCEPT !.day = @ - 1]
    ELSE IF t.month > 1
      THEN [t EXCEPT !.day = DaysInMonth(t.year, t.month - 1), !.month = @ - 1]
    ELSE [t EXCEPT !.day = 31, !.month = 12, !.year = @ - 1]

\* t + timedelta(minutes=1)
AddMinute(t) ==
    IF t.minute < 59 THEN [t EXCEPT !.minute = @ + 1]
    ELSE IF t.hour < 23 THEN [t EXCEPT !.minute = 0, !.hour = @ + 1]
    ELSE NextDay([t EXCEPT !.minute = 0, !.hour = 0])

\* t - timedelta(minutes=1)
SubMinute(t) ==
    IF t.minute > 0 THEN [t EXCEPT !.minute = @ - 1]
    ELSE IF t.hour > 0 THEN [t EXCEPT !.minute = 59, !.hour = @ - 1]
    ELSE PrevDay([t EXCEPT !.minute = 59, !.hour = 23])

\* t - timedelta(seconds=k) for 0 <= k <= 59
SubSeconds(t, k) ==
    IF k <= t.second THEN [t EXCEPT !.second = @ - k]
    ELSE SubMinute([t EXCEPT !.second = @ + 60 - k])

\* t.replace(second=0, microsecond=0)
MinuteOf(t) == [t EXCEPT !.second = 0]

\* t.strftime('%m%d%H%M')
StampMDHM(t) == Fmt2(t.month) \o Fmt2(t.day) \o Fmt2(t.hour) \o Fmt2(t.minute)

\* t.strftime('%Y%m%d%H%M%S')
StampYMDHMS(t) == Fmt4(t.year) \o StampMDHM(t) \o Fmt2(t.second)

\* datetime.strptime(s, '%Y%m%d%H%M%S').  The format compiles to the regex
\*   (\d\d\d\d)(1[0-2]|0[1-9]|[1-9])(3[01]|[12]\d|0[1-9]|[1-9]| [1-9])
\*   (2[0-3]|[0-1]\d|\d)([0-5]\d|\d)(6[0-1]|[0-5]\d|\d)
\* matched at the start of s with backtracking in that order of alternatives;
\* unconverted data after the match, and a date datetime() rejects, raise
\* ValueError.
DigitAt(s, p) == p <= Len(s) /\ IsDigit(s[p])

Num2(s, p) == DigitVal(s[p]) * 10 + DigitVal(s[p + 1])

\* the widths, in the regex's order, that directive number f matches at p
FieldWidths(s, p, f) ==
    LET two == DigitAt(s, p) /\ DigitAt(s, p + 1)
        one == DigitAt(s, p)
        w2(ok) == IF ok THEN <<2>> ELSE <<>>
        w1(ok) == IF ok THEN <<1>> ELSE <<>>
    IN  CASE f = 1 -> IF two /\ DigitAt(s, p + 2) /\ DigitAt(s, p + 3)
                        THEN <<4>> ELSE <<>>
          [] f = 2 -> w2(two /\ Num2(s, p) \in 1..12)
                      \o w1(one /\ s[p] # "0")
          [] f = 3 -> w2(two /\ Num2(s, p) \in 1..31)
                      \o w1(one /\ s[p] # "0")
                      \o w2(p <= Len(s) /\ s[p] = " " /\ DigitAt(s, p + 1)
                            /\ s[p + 1] # "0")
          [] f = 4 -> w2(two /\ Num2(s, p) \in 0..23) \o w1(one)
          [] f = 5 -> w2(two /\ Num2(s, p) \in 0..59) \o w1(one)
          [] f = 6 -> w2(two /\ Num2(s, p) \in 0..61) \o w1(one)

FieldValue(s, p, w) ==
    LET t == strip(SubSeq(s, p, p + w - 1)) IN DigitsValue(t, 1, 0)

\* first match of directives f..6 at p: [ok, end, vals]
RECURSIVE MatchFields(_, _, _)
RECURSIVE TryWidths(_, _, _, _, _)
TryWidths(s, p, f, ws, i) ==
    IF i > Len(ws) THEN [ok |-> FALSE, end |-> p, vals |-> <<>>]
    ELSE LET rest == MatchFields(s, p + ws[i], f + 1)
         IN  IF rest.ok
               THEN [ok |-> TRUE, end |-> rest.end,
                     vals |-> <<FieldValue(s, p, ws[i])>> \o rest.vals]
               ELSE TryWidths(s, p, f, ws, i + 1)

MatchFields(s, p, f) ==
    IF f > 6 THEN [ok |-> TRUE, end |-> p, vals |-> <<>>]
    ELSE TryWidths(s, p, f, FieldWidths(s, p, f), 1)

\* the date-time of a match m of the whole format, if there is one
StrptimeResult(s, m) ==
    IF /\ m.ok
       /\ m.end = Len(s) + 1
       /\ m.vals[1] >= 1
       /\ m.vals[3] <= DaysInMonth(m.vals[1], m.vals[2])
       /\ m.vals[6] <= 59
      THEN [ok |-> TRUE,
            val |-> DateTime(m.vals[1], m.vals[2], m.vals[3],
                             m.vals[4], m.vals[5], m.vals[6])]
    ELSE [ok |-> FALSE, val |-> DateTime(1, 1, 1, 0, 0, 0)]

strptime(s) == StrptimeResult(s, MatchFields(s, 1, 1))

-----------------------------------------------------------------------------
(* ksddash.py: the static table and the file names *)

\* Python's None, and an optional value: <<>> or <<x>>
None == <<>>

SEND == <<"S", "E", "N", "D">>

RECV == <<"R", "E", "C", "V">>

\* the label for a code outside the table: '미정의 업무'
UNDEFINED_BUSINESS == "undefined business"

\* the label of the TOTAL pseudo-row: '총 발생건수'
TOTAL_BUSINESS == "total count"

\* '주식 매수', '주식 매도', '잔고 조회', '계좌 조회', '시세 조회',
\* '체결 확인', '예탁금 조회', '거래내역 조회', '계좌이체', '신용거래'
KSD_BUSINESS_NAMES ==
    (<<"6", "3", "1">> :> "stock buy")
    @@ (<<"6", "3", "2">> :> "stock sell")
    @@ (<<"6", "3", "3">> :> "balance inquiry")
    @@ (<<"6", "3", "4">> :> "account inquiry")
    @@ (<<"6", "3", "5">> :> "quote inquiry")
    @@ (<<"6", "3", "6">> :> "execution check")
    @@ (<<"6", "3", "7">> :> "deposit inquiry")
    @@ (<<"6", "3", "8">> :> "history inquiry")
    @@ (<<"6", "3", "9">> :> "account transfer")
    @@ (<<"6", "4", "0">> :> "credit trading")

\* a faulty BusinessName: .get(code) without the default
BusinessName_NoDefault(code) ==
    IF code \in DOMAIN KSD_BUSINESS_NAMES THEN KSD_BUSINESS_NAMES[code] ELSE "None"

\* KSD_BUSINESS_NAMES.get(code, '미정의 업무')
BusinessName(code) ==
    IF code \in DOMAIN KSD_BUSINESS_NAMES THEN KSD_BUSINESS_NAMES[code]
    ELSE UNDEFINED_BUSINESS

\* a faulty SummaryFileName: the prefix is left out of the name, 's' is
\* written in its place
SummaryFileName_SendOnly(prefix, t) == <<"s", ".ksd653.log.">> \o StampMDHM(t)

\* f"{prefix}.ksd653.log.{t.strftime('%m%d%H%M')}" under test_data
SummaryFileName(prefix, t) == <<prefix, ".ksd653.log.">> \o StampMDHM(t)

\* f"{prefix}.tran.ksd653.log.{t.strftime('%m%d%H%M')}" under test_data
TranFileName(prefix, t) == <<prefix, ".tran.ksd653.log.">> \o StampMDHM(t)

\* os.path.exists(name) in the directory dir
Exists(dir, name) == name \in DOMAIN dir

LogEntry(level, about) == [level |-> level, about |-> about]

-----------------------------------------------------------------------------
(* gen_data.py: the synthetic log generator *)

\* str(n) for n >= 0
RECURSIVE Dec(_)
Dec(n) == IF n < 10 THEN <<DigitChars[n + 1]>> ELSE Dec(n \div 10) \o <<DigitChars[(n % 10) + 1]>>

\* range(20): transaction records per direction
GenCount == 20

SendCounts == <<150, 200, 180, 120, 90, 110, 85, 95, 75, 60>>

RecvCounts == <<145, 195, 175, 115, 85, 105, 80, 90, 70, 55>>

\* send_summary / recv_summary: "631:150", ..., "640:60"
send_summary == [i \in 1..Len(SendCounts) |-> Dec(630 + i) \o <<":">> \o Dec(SendCounts[i])]

recv_summary == [i \in 1..Len(RecvCounts) |-> Dec(630 + i) \o <<":">> \o Dec(RecvCounts[i])]

\* the values random.randint returns during one run, for i = 0..19:
\* offset[i] in 0..59, send[i] and recv[i] in 1..9
Draw(a, b, c) ==
    [offset |-> [i \in 0..(GenCount - 1) |-> (a + b * i) % 60],
     send |-> [i \in 0..(GenCount - 1) |-> ((c + i) % 9) + 1],
     recv |-> [i \in 0..(GenCount - 1) |-> ((c + 2 * i) % 9) + 1]]

\* the runs drawn: every offset 0; and the offsets 59, 0, 1, ..., 18, which
\* put the first record generated 59 seconds back and sorting to work
RandomDraws == {Draw(0, 0, 0), Draw(59, 1, 4)}

\* f"{timestamp_str}:aaaa코드bbbb_{i:04d}:{code}:SEND"
GenLine(current_time, offset, i, digit, tran_type) ==
    StampYMDHMS(SubSeconds(current_time, offset))
    \o <<":", "a", "a", "a", "a", "U+CF54", "U+B4DC", "b", "b", "b", "b", "_">>
    \o Fmt4(i)
    \o <<":", "6", "3", DigitChars[digit + 1], ":">>
    \o tran_type

send_transactions(current_time, rnd) ==
    [k \in 1..GenCount |-> GenLine(current_time, rnd.offset[k - 1], k - 1, rnd.send[k - 1], SEND)]

recv_transactions(current_time, rnd) ==
    [k \in 1..GenCount |-> GenLine(current_time, rnd.offset[k - 1], k - 1, rnd.recv[k - 1], RECV)]

\* a file of the directory: its text, the time it was last written at and,
\* for the properties, who wrote it.  ends is for the copy a reader has of
\* it: how much it had read each time the end of the file handed it a line
\* that no newline ended
File(text, mtime, by) == [text |-> text, mtime |-> mtime, by |-> by, ends |-> {}]

\* a faulty open: mode 'a', a file that is already there keeps its text
open_Append(dir, name, now) ==
    IF name \in DOMAIN dir THEN dir
    ELSE (name :> File(<<>>, now, "generator")) @@ dir

\* open(name, 'w') at time now: the file is created, or truncated when it is
\* already there; it is empty until the text is written to it
open(dir, name, now) == (name :> File(<<>>, now, "generator")) @@ dir

\* f.write(text) and the end of the with block, at time now: the text goes
\* to the open file, which gets the time of this write
write(dir, name, text, now) ==
    [dir EXCEPT ![name] = File(@.text \o text, now, "generator")]

\* '\n'.join(send_summary), '\n'.join(recv_summary)
send_summary_text == join(<<"\n">>, send_summary)

recv_summary_text == join(<<"\n">>, recv_summary)

\* '\n'.join(sorted(send_transactions)), '\n'.join(sorted(recv_transactions))
send_transactions_text(current_time, rnd) ==
    join(<<"\n">>, sorted(send_transactions(current_time, rnd)))

recv_transactions_text(current_time, rnd) ==
    join(<<"\n">>, sorted(recv_transactions(current_time, rnd)))

-----------------------------------------------------------------------------
(* The environment: the clock and the external producer of log files *)

\* the last minute of 2024 and the first of 2025
M0 == DateTime(2024, 12, 31, 23, 59, 0)

M1 == AddMinute(M0)

\* the instants at which something happens, in order
ClockValues == <<[M0 EXCEPT !.second = 30], [M1 EXCEPT !.second = 10]>>

\* the start and end times a query is made with
QueryTimes == {M0, [M0 EXCEPT !.second = 30], [M1 EXCEPT !.second = 10]}

DirectionFilters == {None, SEND, RECV}

NL == <<"\n">>

\* contents the producer may leave in a summary file
SumOk == <<"6", "3", "1", ":", "1", "5", "0", "\n", "6", "3", "2", ":", "2", "0", "0">>

SumZero == <<"6", "3", "1", ":", "0", "\n", "6", "3", "2", ":", "0">>

SumUnknown == <<"9", "9", "9", ":", "5", "\n", "6", "3", "1", ":", "1", "5", "\n">>

SumSigned == <<"6", "3", "1", ":", "-", "5", "\n", " ", "6", "3", "2", ":", "+", "1", "_", "5">>

SumFields == <<"6", "3", "1", ":", "1", "5", "0", "\n", "6", "3", "2">>

SumNotInt == <<"6", "3", "1", ":", "1", "x">>

SumCancel == <<"6", "3", "1", ":", "-", "5", "\n", "6", "3", "2", ":", "5">>

SumEmpty == <<>>

SumOne == <<"6", "4", "0", ":", "6", "0">>

SumThree == <<"6", "3", "3", ":", "1", "\n", "6", "3", "1", ":", "3", "\n", "6", "3", "2", ":", "2", "\n">>

SummaryTexts ==
    {SumOk, SumZero, SumUnknown, SumSigned, SumCancel, SumFields, SumNotInt, SumEmpty,
     SumOne, SumThree}

\* "<YYYYmmddHHMMSS of minute m, second sec>:<result_file>:<code>:<tran_type>"
TranLine(m, sec, result_file, code, tran_type) ==
    StampYMDHMS([m EXCEPT !.second = sec]) \o <<":">> \o result_file
    \o <<":">> \o code \o <<":">> \o tran_type

\* contents the producer may leave in a transaction file of minute m
TranSend(m) ==
    TranLine(m, 5, <<"f", "1">>, <<"6", "3", "1">>, SEND) \o NL
    \o TranLine(m, 40, <<"f", "2">>, <<"6", "3", "9">>, SEND)

TranRecv(m) ==
    TranLine(m, 20, <<"f", "3">>, <<"6", "4", "0">>, RECV) \o NL
    \o TranLine(m, 21, <<"f", "4">>, <<"7", "0", "0">>, RECV) \o NL

TranFields(m) ==
    TranLine(m, 5, <<"f", "1">>, <<"6", "3", "1">>, SEND) \o NL
    \o StampYMDHMS([m EXCEPT !.second = 6]) \o <<":", "f", "5", ":", "6", "3", "1">>

TranBadTime(m) ==
    <<"2", "0", "2", "4", "1", "3", "3", "1", "2", "3", "5", "9", "0", "5">>
    \o <<":", "f", "6", ":", "6", "3", "1", ":">> \o SEND

TranOld(m) ==
    <<"2", "0", "2", "4", "0", "2", "2", "9", "1", "2", "0", "0", "0", "0">>
    \o <<":", "f", "7", ":", "6", "3", "2", ":">> \o SEND

TranEmpty(m) == <<>>

TranTexts(m) ==
    {TranSend(m), TranRecv(m), TranFields(m), TranBadTime(m), TranOld(m), TranEmpty(m)}

\* those of them the producer leaves while reads are under way
\* the texts the producer leaves in a summary file while the dashboard runs
ProducedSummaries ==
    {SumOk, SumZero, SumCancel, SumSigned, SumFields, SumOne, SumThree}

ProducedTexts(m) == {TranSend(m), TranRecv(m), TranFields(m)}

\* the minutes the clock can show, over the years
Minutes ==
    {MinuteOf([ClockValues[i] EXCEPT !.year = @ + y]) :
        i \in DOMAIN ClockValues, y \in 0..MaxYears}

\* '\n'.join(sorted(send_transactions)) and '\n'.join(sorted(recv_transactions))
\* of every run the generator can make, computed once
transactions_text ==
    [tran_type \in {SEND, RECV}, current_time \in Minutes, rnd \in RandomDraws |->
        IF tran_type = SEND THEN send_transactions_text(current_time, rnd)
        ELSE recv_transactions_text(current_time, rnd)]

\* every text a transaction file can hold
TransactionTexts ==
    {<<>>}
    \cup UNION {TranTexts(m) : m \in Minutes}
    \cup {transactions_text[x] : x \in DOMAIN transactions_text}

-----------------------------------------------------------------------------
(* ksddash.py: the two readers *)

\* a faulty Percentage: the fraction of the total, not scaled to percent
Percentage_NoScale(count, total) ==
    IF total # 0 THEN [kind |-> "num", num |-> count, den |-> total]
    ELSE IF count = 0 THEN [kind |-> "nan", num |-> 0, den |-> 0]
    ELSE IF count > 0 THEN [kind |-> "inf", num |-> 0, den |-> 0]
    ELSE [kind |-> "-inf", num |-> 0, den |-> 0]

\* count / total * 100 on a pandas integer column: float division, which
\* gives nan for 0/0 and +-inf for x/0 instead of raising.  A finite value is
\* kept exact as the fraction num/den.
Percentage(count, total) ==
    IF total # 0 THEN [kind |-> "num", num |-> count * 100, den |-> total]
    ELSE IF count = 0 THEN [kind |-> "nan", num |-> 0, den |-> 0]
    ELSE IF count > 0 THEN [kind |-> "inf", num |-> 0, den |-> 0]
    ELSE [kind |-> "-inf", num |-> 0, den |-> 0]

\* the literal 100.0
Hundred == [kind |-> "num", num |-> 100, den |-> 1]

\* a faulty SumCounts: the number of rows taken for the total
SumCounts_RowCount(data, i) == Len(data) - (i - 1)

\* df['count'].sum()
RECURSIVE SumCounts(_, _)
SumCounts(data, i) ==
    IF i > Len(data) THEN 0 ELSE data[i].count + SumCounts(data, i + 1)

\* one line of a summary file: code, count = line.strip().split(':')
SummaryRecord(code, n) ==
    IF n.ok
      THEN [ok |-> TRUE,
            rec |-> <<[ksd_code |-> code,
                       business_name |-> BusinessName(code),
                       count |-> n.val]>>]
    ELSE [ok |-> FALSE, rec |-> <<>>]

SummaryFields(fields) ==
    IF Len(fields) = 2 THEN SummaryRecord(fields[1], int(fields[2]))
    ELSE [ok |-> FALSE, rec |-> <<>>]

SummaryLine(line) == SummaryFields(split(strip(line), ":"))

RECURSIVE SummaryData(_, _, _)

\* the step of the loop once line i is parsed into r
SummaryNext(lines, i, data, r) ==
    IF r.ok THEN SummaryData(lines, i + 1, data \o r.rec)
    ELSE [ok |-> FALSE, data |-> data]

\* a faulty SummaryData: the first line is taken for a header and skipped
SummaryData_SkipFirst(lines, i, data) ==
    IF i > Len(lines) THEN [ok |-> TRUE, data |-> data]
    ELSE IF i = 1 THEN SummaryData(lines, 2, data)
    ELSE SummaryNext(lines, i, data, SummaryLine(lines[i]))

\* the loop over the lines of a summary file: stops at the first line that
\* raises
SummaryData(lines, i, data) ==
    IF i > Len(lines) THEN [ok |-> TRUE, data |-> data]
    ELSE SummaryNext(lines, i, data, SummaryLine(lines[i]))

Outcome(raised, records, file_time, log) ==
    [raised |-> raised, records |-> records, file_time |-> file_time, log |-> log]

\* a faulty DirectionPrefix: the two prefixes swapped
DirectionPrefix_Swapped(is_send) == IF is_send THEN "r" ELSE "s"

\* prefix = 's' if is_send else 'r'
DirectionPrefix(is_send) == IF is_send THEN "s" ELSE "r"

\* df['percentage'] = df['count'] / total * 100
WithPercentage(data, total) ==
    [i \in 1..Len(data) |->
       [ksd_code |-> data[i].ksd_code,
        business_name |-> data[i].business_name,
        count |-> data[i].count,
        percentage |-> Percentage(data[i].count, total)]]

\* read_summary_log once the file is there: p is what the loop over its
\* lines gave
SummaryResult(mtime, file_path, p) ==
    IF ~p.ok THEN Outcome(TRUE, <<>>, None, <<LogEntry("INFO", file_path)>>)
    ELSE IF p.data # <<>>
      THEN Outcome(FALSE, WithPercentage(p.data, SumCounts(p.data, 1)), <<mtime>>,
                   <<LogEntry("INFO", file_path), LogEntry("INFO", file_path)>>)
    ELSE Outcome(FALSE, <<>>, None, <<LogEntry("INFO", file_path)>>)

\* a faulty SummaryOfFile: data is kept on the monitor and not emptied, a
\* read starts from the rows of the summary read before it
SummaryOfFile_SharedData(dir, file_path) ==
    IF ~Exists(dir, file_path)
      THEN Outcome(FALSE, <<>>, None,
                   <<LogEntry("INFO", file_path), LogEntry("WARNING", file_path)>>)
    ELSE SummaryResult(dir[file_path].mtime, file_path,
                       SummaryData(LinesHanded(dir[file_path]), 1,
                                   IF history = <<>>
                                        \/ history[Len(history)].op # "read_summary_log"
                                     THEN <<>>
                                   ELSE history[Len(history)].out.records))

SummaryOfFile(dir, file_path) ==
    IF ~Exists(dir, file_path)
      THEN Outcome(FALSE, <<>>, None,
                   <<LogEntry("INFO", file_path), LogEntry("WARNING", file_path)>>)
    ELSE SummaryResult(dir[file_path].mtime, file_path,
                       SummaryData(LinesHanded(dir[file_path]), 1, <<>>))

\* the body of the try block of read_summary_log
SummaryBody(dir, now, is_send) ==
    SummaryOfFile(dir, SummaryFileName(DirectionPrefix(is_send), now))

\* a faulty TryExcept: no handler, the exception leaves the reader
TryExcept_NoHandler(body, fallback_time) == body

\* try: ... except Exception as e: logging.error(...); return the fallback
TryExcept(body, fallback_time) ==
    IF body.raised
      THEN Outcome(FALSE, <<>>, fallback_time, body.log \o <<LogEntry("ERROR", <<>>)>>)
    ELSE body

\* KSDMonitor.read_summary_log(is_send), run in directory dir at time now
read_summary_log(dir, now, is_send) == TryExcept(SummaryBody(dir, now, is_send), None)

\* one line of a transaction file:
\* timestamp, result_file, code, tran_type = line.strip().split(':')
\* a faulty TransactionRecord: the direction is not taken from the line
TransactionRecord_AlwaysSend(fields, ts) ==
    IF ts.ok
      THEN [ok |-> TRUE,
            rec |-> <<[timestamp |-> ts.val,
                       result_file |-> fields[2],
                       ksd_code |-> fields[3],
                       business_name |-> BusinessName(fields[3]),
                       direction |-> SEND]>>]
    ELSE [ok |-> FALSE, rec |-> <<>>]

\* a faulty TransactionRecord: the timestamp is cut to its minute, as the
\* minute of a file name is
TransactionRecord_ToTheMinute(fields, ts) ==
    IF ts.ok
      THEN [ok |-> TRUE,
            rec |-> <<[timestamp |-> MinuteOf(ts.val),
                       result_file |-> fields[2],
                       ksd_code |-> fields[3],
                       business_name |-> BusinessName(fields[3]),
                       direction |-> fields[4]]>>]
    ELSE [ok |-> FALSE, rec |-> <<>>]

TransactionRecord(fields, ts) ==
    IF ts.ok
      THEN [ok |-> TRUE,
            rec |-> <<[timestamp |-> ts.val,
                       result_file |-> fields[2],
                       ksd_code |-> fields[3],
                       business_name |-> BusinessName(fields[3]),
                       direction |-> fields[4]]>>]
    ELSE [ok |-> FALSE, rec |-> <<>>]

TransactionFields(fields) ==
    IF Len(fields) = 4 THEN TransactionRecord(fields, strptime(fields[1]))
    ELSE [ok |-> FALSE, rec |-> <<>>]

TransactionLine(line) == TransactionFields(split(strip(line), ":"))

RECURSIVE TransactionData(_, _, _)

\* a faulty TransactionNext: a line that does not parse is skipped
TransactionNext_SkipBadLine(lines, i, data, r) ==
    IF r.ok THEN TransactionData(lines, i + 1, data \o r.rec)
    ELSE TransactionData(lines, i + 1, data)

\* the step of the loop once line i is parsed into r
TransactionNext(lines, i, data, r) ==
    IF r.ok THEN TransactionData(lines, i + 1, data \o r.rec)
    ELSE [ok |-> FALSE, data |-> data]

\* the loop over the lines of a transaction file: stops at the first line
\* that raises
TransactionData(lines, i, data) ==
    IF i > Len(lines) THEN [ok |-> TRUE, data |-> data]
    ELSE TransactionNext(lines, i, data, TransactionLine(lines[i]))

\* for line in f: ... over every text a writer leaves in a transaction file,
\* computed once
TransactionDataOf ==
    [text \in TransactionTexts |-> TransactionData(FileLines(text), 1, <<>>)]

\* for line in f: ... over what a call read of a transaction file
TransactionDataRead(file) ==
    IF file.text \in DOMAIN TransactionDataOf /\ file.ends \subseteq {Len(file.text)}
      THEN TransactionDataOf[file.text]
    ELSE TransactionData(LinesHanded(file), 1, <<>>)

\* a faulty Prefixes: without a filter only the send file is read
Prefixes_SendOnly(direction) == IF direction = RECV THEN <<"r">> ELSE <<"s">>

\* a faulty Prefixes: the filter is ignored, both files are always read
Prefixes_Both(direction) == <<"s", "r">>

\* ['s'] if direction == 'SEND' else ['r'] if direction == 'RECV' else ['s', 'r']
Prefixes(direction) ==
    IF direction = SEND THEN <<"s">>
    ELSE IF direction = RECV THEN <<"r">> ELSE <<"s", "r">>

\* logging.info(f"Looking for transaction log file: {file_name}")
Logged(acc, file_name) ==
    Outcome(acc.raised, acc.records, acc.file_time,
            acc.log \o <<LogEntry("INFO", file_name)>>)

RECURSIVE MinuteFiles(_, _, _, _, _)

\* the file of prefix number k once its lines are parsed into p
MinuteParsed(dir, current, prefixes, k, acc, p) ==
    IF ~p.ok THEN Outcome(TRUE, acc.records \o p.data, None, acc.log)
    ELSE MinuteFiles(dir, current, prefixes, k + 1,
                     Outcome(FALSE, acc.records \o p.data, None, acc.log))

\* with open(file_name, 'r') as f: for line in f: ...
MinuteOpen(dir, current, prefixes, k, acc, file_name) ==
    IF ~Exists(dir, file_name) THEN Outcome(TRUE, acc.records, None, acc.log)
    ELSE MinuteParsed(dir, current, prefixes, k, acc,
                      TransactionDataRead(dir[file_name]))

\* if os.path.exists(file_name): with open(file_name, 'r') as f: ...
MinuteFile(dir, current, prefixes, k, acc, file_name) ==
    IF ~Exists(dir, file_name) THEN MinuteFiles(dir, current, prefixes, k + 1, acc)
    ELSE MinuteOpen(dir, current, prefixes, k, acc, file_name)

\* a faulty MinuteFiles: no os.path.exists check, open() of a missing file
\* raises
MinuteFiles_NoExistsCheck(dir, current, prefixes, k, acc) ==
    IF k > Len(prefixes) THEN acc
    ELSE MinuteOpen(dir, current, prefixes, k,
                    Logged(acc, TranFileName(prefixes[k], current)),
                    TranFileName(prefixes[k], current))

\* the for loop over the prefixes of one minute, from prefix number k on
MinuteFiles(dir, current, prefixes, k, acc) ==
    IF k > Len(prefixes) THEN acc
    ELSE MinuteFile(dir, current, prefixes, k,
                    Logged(acc, TranFileName(prefixes[k], current)),
                    TranFileName(prefixes[k], current))

RECURSIVE TransactionLoop(_, _, _, _, _)

\* the step of the loop once the files of minute current are read into m
LoopNext(dir, current, end_time, direction, m) ==
    IF m.raised THEN m
    ELSE TransactionLoop(dir, AddMinute(current), end_time, direction, m)

\* while current <= end_time: ...; current += timedelta(minutes=1)
TransactionLoop(dir, current, end_time, direction, acc) ==
    IF ~DtLeq(current, end_time) THEN acc
    ELSE LoopNext(dir, current, end_time, direction,
                  MinuteFiles(dir, current, Prefixes(direction), 1, acc))

\* a faulty TransactionBody: the records are sorted by timestamp before they
\* are returned
RECURSIVE InsertByTime(_, _)
InsertByTime(rows, r) ==
    IF rows = <<>> THEN <<r>>
    ELSE IF DtLess(r.timestamp, Head(rows).timestamp) THEN <<r>> \o rows
    ELSE <<Head(rows)>> \o InsertByTime(Tail(rows), r)

RECURSIVE SortByTime(_, _, _)
SortByTime(rows, i, acc) ==
    IF i > Len(rows) THEN acc ELSE SortByTime(rows, i + 1, InsertByTime(acc, rows[i]))

SortedOutcome(out) == [out EXCEPT !.records = SortByTime(out.records, 1, <<>>)]

TransactionBody_SortedByTime(dir, start_time, end_time, direction) ==
    SortedOutcome(TransactionLoop(dir, start_time, end_time, direction,
                                  Outcome(FALSE, <<>>, None, <<>>)))

\* the body of the try block of read_transaction_log
TransactionBody(dir, start_time, end_time, direction) ==
    TransactionLoop(dir, start_time, end_time, direction,
                    Outcome(FALSE, <<>>, None, <<>>))

\* KSDMonitor.read_transaction_log(start_time, end_time, direction) in dir
read_transaction_log(dir, start_time, end_time, direction) ==
    TryExcept(TransactionBody(dir, start_time, end_time, direction), None)

\* create_metrics_html: df.sort_values('count', ascending=False); the frames
\* here are short enough that the sort keeps equal counts in file order
RECURSIVE InsertByCount(_, _)
InsertByCount(rows, r) ==
    IF rows = <<>> THEN <<r>>
    ELSE IF r.count > Head(rows).count THEN <<r>> \o rows
    ELSE <<Head(rows)>> \o InsertByCount(Tail(rows), r)

RECURSIVE SortByCount(_, _, _)
SortByCount(df, i, acc) ==
    IF i > Len(df) THEN acc ELSE SortByCount(df, i + 1, InsertByCount(acc, df[i]))

\* create_metrics_html: the TOTAL row, then df by descending count
data_with_total(df) ==
    <<[ksd_code |-> <<"T", "O", "T", "A", "L">>,
       business_name |-> TOTAL_BUSINESS,
       count |-> SumCounts(df, 1),
       percentage |-> Hundred]>>
    \o SortByCount(df, 1, <<>>)

-----------------------------------------------------------------------------
(* The state machine *)

NoFiles == [n \in {} |-> File(<<>>, M0, "producer")]

\* a call of a reader: its arguments, the time it read at line 48 (now), the
\* files it has opened, each with the text its reads returned (seen), the
\* files of which that text is one the file never held, a writer having
\* rewritten the file between two reads (torn), and what it returned (out);
\* of a call that is kept in history, how many files the producer had
\* written when it was made and when it returned (writes)
NoCall ==
    [op |-> "none", is_send |-> FALSE, start_time |-> M0, end_time |-> M0,
     direction |-> None, now |-> None, seen |-> NoFiles, torn |-> {},
     writes |-> None, out |-> Outcome(FALSE, <<>>, None, <<>>)]

NoShow == [kind |-> "none", rows |-> <<>>, log_time |-> None]

\* gen_data.py is not running; while it runs, pc is the line it is about to
\* execute, current_time and rnd hold what it has computed so far
GenIdle == [pc |-> 0, current_time |-> None, rnd |-> None]

\* the dashboard is in no call of a reader; while it is in one, pc is the
\* line it is about to execute, call what it was called with and has read,
\* current and k the minute and the prefix number of the loop of
\* read_transaction_log
RdIdle == [pc |-> 0, call |-> NoCall, current |-> None, k |-> 0]

Init ==
    /\ clock = ClockValues[1]
    /\ files = NoFiles
    /\ ret = NoCall
    /\ shown = NoShow
    /\ genRuns = 0
    /\ produced = 0
    /\ history = <<>>
    /\ gen = GenIdle
    /\ namedFor = [n \in DOMAIN files |-> MinuteOf(clock)]
    /\ rd = RdIdle

\* nothing is being read, returned or shown: the script is between two runs
Idle == ret = NoCall /\ shown = NoShow /\ rd.pc = 0

\* time passes, from one of the instants to the next
Passes(instants) ==
    /\ \E i \in 1..(Len(instants) - 1) :
          clock = instants[i] /\ clock' = instants[i + 1]
    /\ UNCHANGED <<files, ret, shown, genRuns, produced, history, gen, namedFor, rd>>

Tick == Passes(ClockValues)

\* the producer writes text to the file name, in place
Produces(name, text) ==
    /\ produced < MaxFiles
    /\ files' = (name :> File(text, clock, "producer")) @@ files
    /\ namedFor' = (name :> MinuteOf(clock)) @@ namedFor
    /\ produced' = produced + 1
    /\ UNCHANGED <<clock, ret, shown, genRuns, history, gen, rd>>

\* the producer writes the summary file of the current minute
ProduceSummary ==
    \E prefix \in {"s", "r"}, text \in ProducedSummaries :
        Produces(SummaryFileName(prefix, clock), text)

\* the producer writes the transaction file of the current minute
ProduceTran ==
    \E prefix \in {"s", "r"}, text \in ProducedTexts(MinuteOf(clock)) :
        Produces(TranFileName(prefix, clock), text)

\* a step of the generator, from line pc on: a program of its own, which
\* nothing of the dashboard holds back
GenStep(pc, next) ==
    /\ gen.pc = pc
    /\ gen' = next
    /\ UNCHANGED <<clock, ret, shown, produced, history, rd>>

\* python gen_data.py is started:
\* current_time = datetime.now().replace(second=0, microsecond=0)
GenStart ==
    /\ genRuns < MaxGenRuns
    /\ GenStep(0, [pc |-> 48, current_time |-> <<MinuteOf(clock)>>, rnd |-> None])
    /\ UNCHANGED <<files, genRuns, namedFor>>

\* with open(<name>, 'w') as f, at line pc: the file is there, empty, with
\* the time of this instant
GenOpen(pc, name, rnd) ==
    /\ GenStep(pc, [gen EXCEPT !.pc = pc + 1, !.rnd = rnd])
    /\ files' = open(files, name, clock)
    /\ namedFor' = (name :> gen.current_time[1]) @@ namedFor
    /\ UNCHANGED genRuns

\* f.write(<text>) at line pc and the end of the with block
GenWrite(pc, next, name, text) ==
    /\ GenStep(pc, [gen EXCEPT !.pc = next])
    /\ files' = write(files, name, text, clock)
    /\ UNCHANGED <<genRuns, namedFor>>

OpenSendSummary ==
    GenOpen(48, SummaryFileName("s", gen.current_time[1]), None)

WriteSendSummary ==
    GenWrite(49, 52, SummaryFileName("s", gen.current_time[1]), send_summary_text)

OpenRecvSummary ==
    GenOpen(52, SummaryFileName("r", gen.current_time[1]), None)

WriteRecvSummary ==
    GenWrite(53, 73, SummaryFileName("r", gen.current_time[1]), recv_summary_text)

\* the loop that draws the 20 records of either direction, then
\* with open(<s.tran...>, 'w') as f
OpenSendTran ==
    \E rnd \in RandomDraws :
        GenOpen(73, TranFileName("s", gen.current_time[1]), <<rnd>>)

WriteSendTran ==
    GenWrite(74, 77, TranFileName("s", gen.current_time[1]),
             transactions_text[SEND, gen.current_time[1], gen.rnd[1]])

OpenRecvTran ==
    GenOpen(77, TranFileName("r", gen.current_time[1]), gen.rnd)

\* the last file is written and the run ends
WriteRecvTran ==
    /\ GenStep(78, GenIdle)
    /\ files' = write(files, TranFileName("r", gen.current_time[1]),
                      transactions_text[RECV, gen.current_time[1], gen.rnd[1]], clock)
    /\ genRuns' = genRuns + 1
    /\ UNCHANGED namedFor

\* python gen_data.py: one statement of generate_test_data at a time
Generate ==
    \/ GenStart
    \/ OpenSendSummary
    \/ WriteSendSummary
    \/ OpenRecvSummary
    \/ WriteRecvSummary
    \/ OpenSendTran
    \/ WriteSendTran
    \/ OpenRecvTran
    \/ WriteRecvTran

\* a statement of a reader that reads the clock or the directory and goes
\* on to line pc of the call
ReaderGoes(next) ==
    /\ rd' = next
    /\ UNCHANGED <<clock, files, ret, shown, genRuns, produced, history, gen, namedFor>>

\* the call as it has returned out
Returned(call, out) ==
    [call EXCEPT !.out = out,
                 !.writes = IF @ = None THEN None ELSE @ \o <<produced>>]

\* the call returns out
ReaderReturns(call, out) ==
    /\ ret' = Returned(call, out)
    /\ history' = IF call.writes = None THEN history
                  ELSE Append(history, Returned(call, out))
    /\ rd' = RdIdle
    /\ UNCHANGED <<clock, files, shown, genRuns, produced, gen, namedFor>>

\* open(name, 'r'): the file is open at its first character, nothing of it
\* is read yet
Opened(call, name) ==
    [call EXCEPT !.seen = (name :> [files[name] EXCEPT !.text = <<>>]) @@ @]

\* what read(2) returns to a reader that has read sofar of the file: what
\* the file holds now beyond that many characters, nothing at the end of
\* the file
Rest(name, sofar) == SubSeq(files[name].text, Len(sofar) + 1, Len(files[name].text))

\* the call once the read returned chunk: the text it has of the file is
\* torn when it is not what the file holds, or when the chunk follows a line
\* that the end of the file had ended
HasRead(call, name, chunk) ==
    [call EXCEPT
       !.seen = (name :> [files[name] EXCEPT !.text = call.seen[name].text \o chunk,
                                             !.ends = call.seen[name].ends]) @@ @,
       !.torn = IF /\ call.seen[name].text \o chunk = files[name].text
                   /\ call.seen[name].ends = {}
                  THEN @
                ELSE @ \cup {name}]

\* the last line of what was read is unfinished: no newline ends it, and
\* the loop was not handed it yet
Unfinished(file) ==
    /\ file.text # <<>>
    /\ file.text[Len(file.text)] # "\n"
    /\ Len(file.text) \notin file.ends

\* the call once a read returned nothing while the last line was
\* unfinished: the loop is handed the line as it is
HandedLast(call, name) ==
    [call EXCEPT !.seen = (name :> [call.seen[name] EXCEPT
                                      !.ends = @ \cup {Len(call.seen[name].text)}]) @@ @]

\* for line in f hands out the lines that are finished in what was read:
\* p is what the loop gives over all of it; the loop has raised when the
\* line it stopped at is a finished one
LineRaised(file, p) ==
    /\ ~p.ok
    /\ \/ ~Unfinished(file)
       \/ Len(p.data) + 1 < Len(LinesHanded(file))

\* the file path get_current_log_file gave the call
FilePath(call) == SummaryFileName(DirectionPrefix(call.is_send), call.now[1])

\* read_summary_log over what the call has read
SummaryOutcome(call) == read_summary_log(call.seen, call.now[1], call.is_send)

\* monitor.read_summary_log(is_send) is called: get_current_log_file reads
\* the clock and builds the path
SummaryCall(call, is_send) ==
    ReaderGoes([RdIdle EXCEPT !.pc = 59,
                              !.call = [call EXCEPT !.op = "read_summary_log",
                                                    !.is_send = is_send,
                                                    !.now = <<clock>>]])

CallSummaryLog ==
    /\ Idle
    /\ \E is_send \in BOOLEAN : SummaryCall(NoCall, is_send)

\* if not os.path.exists(file_path): return pd.DataFrame(), None
SummaryExists ==
    /\ rd.pc = 59
    /\ IF Exists(files, FilePath(rd.call))
         THEN ReaderGoes([rd EXCEPT !.pc = 64])
       ELSE ReaderReturns(rd.call, SummaryOutcome(rd.call))

\* the file is read into data: with data the call goes on to getmtime,
\* without it (an empty file, a line that raised) it returns
SummaryOpened(call, out) ==
    IF out.records # <<>>
      THEN ReaderGoes([rd EXCEPT !.pc = 78, !.call = call])
    ELSE ReaderReturns(call, out)

\* with open(file_path, 'r') as f:
SummaryOpen ==
    /\ rd.pc = 64
    /\ ReaderGoes([rd EXCEPT !.pc = 65, !.call = Opened(rd.call, FilePath(rd.call))])

\* the lines handed out so far are parsed: a line that raised ends the
\* call, otherwise the loop reads on
SummaryLines(call) ==
    IF LineRaised(call.seen[FilePath(call)],
                  SummaryData(LinesHanded(call.seen[FilePath(call)]), 1, <<>>))
      THEN ReaderReturns(call, SummaryOutcome(call))
    ELSE ReaderGoes([rd EXCEPT !.call = call])

\* a read of the loop returned chunk.  When it is nothing, the end of the
\* file: the loop is handed the last line if it is unfinished, and reads
\* again; with no line left the loop and the with block end
SummaryChunk(call, chunk) ==
    IF chunk # <<>> THEN SummaryLines(HasRead(call, FilePath(call), chunk))
    ELSE IF Unfinished(call.seen[FilePath(call)])
      THEN SummaryLines(HandedLast(call, FilePath(call)))
    ELSE SummaryOpened(call, SummaryOutcome(call))

\* for line in f: ...: the next read of the file
SummaryRead ==
    /\ rd.pc = 65
    /\ SummaryChunk(rd.call, Rest(FilePath(rd.call), rd.call.seen[FilePath(rd.call)].text))

SummaryReturns(call) == ReaderReturns(call, SummaryOutcome(call))

\* return df, datetime.fromtimestamp(os.path.getmtime(file_path))
SummaryGetmtime ==
    /\ rd.pc = 78
    /\ SummaryReturns([rd.call EXCEPT
                         !.seen = (FilePath(rd.call) :>
                                     [rd.call.seen[FilePath(rd.call)] EXCEPT
                                        !.mtime = files[FilePath(rd.call)].mtime])])

\* monitor.read_summary_log(is_send), one statement at a time
ReadSummaryLog ==
    \/ CallSummaryLog
    \/ SummaryExists
    \/ SummaryOpen
    \/ SummaryRead
    \/ SummaryGetmtime

\* display_data(stats, log_time, title) on the frame just read
DisplayData ==
    /\ ret.op = "read_summary_log"
    /\ shown = NoShow
    /\ shown' = IF ret.out.records # <<>>
                  THEN [kind |-> "metrics", rows |-> data_with_total(ret.out.records),
                        log_time |-> ret.out.file_time]
                  ELSE [kind |-> "info", rows |-> <<>>, log_time |-> None]
    /\ UNCHANGED <<clock, files, ret, genRuns, produced, history, gen, namedFor, rd>>

\* read_transaction_log over what the call has read
TransactionOutcome(call) ==
    read_transaction_log(call.seen, call.start_time, call.end_time, call.direction)

\* the name of the file of the turn of the loop the call is in
FileName(r) == TranFileName(Prefixes(r.call.direction)[r.k], r.current[1])

\* while current <= end_time: the loop is entered at current, or the call
\* returns
LoopEnters(call, current) ==
    IF DtLeq(current, call.end_time)
      THEN ReaderGoes([pc |-> 97, call |-> call, current |-> <<current>>, k |-> 1])
    ELSE ReaderReturns(call, TransactionOutcome(call))

\* the next prefix of the for loop, or current += timedelta(minutes=1)
LoopGoesOn(call) ==
    IF rd.k < Len(Prefixes(call.direction))
      THEN ReaderGoes([rd EXCEPT !.pc = 97, !.call = call, !.k = rd.k + 1])
    ELSE LoopEnters(call, AddMinute(rd.current[1]))

\* monitor.read_transaction_log(start_time, end_time, direction) is called
TransactionCallOf(call, q) ==
    LoopEnters([call EXCEPT !.op = "read_transaction_log",
                            !.start_time = q[1], !.end_time = q[2],
                            !.direction = q[3]],
               q[1])

CallTransactionLog ==
    /\ Idle
    /\ \E q \in QueryTimes \X QueryTimes \X DirectionFilters : TransactionCallOf(NoCall, q)

\* if os.path.exists(file_name)
TranExists ==
    /\ rd.pc = 97
    /\ IF Exists(files, FileName(rd))
         THEN ReaderGoes([rd EXCEPT !.pc = 98])
       ELSE LoopGoesOn(rd.call)

\* with open(file_name, 'r') as f:
TranOpen ==
    /\ rd.pc = 98
    /\ ReaderGoes([rd EXCEPT !.pc = 99, !.call = Opened(rd.call, FileName(rd))])

\* the lines handed out so far are parsed: a line that raised ends the
\* call, otherwise the loop reads on
TranLines(call, name) ==
    IF LineRaised(call.seen[name], TransactionDataRead(call.seen[name]))
      THEN ReaderReturns(call, TransactionOutcome(call))
    ELSE ReaderGoes([rd EXCEPT !.call = call])

\* a read of the loop returned chunk.  When it is nothing, the end of the
\* file: the loop is handed the last line if it is unfinished, and reads
\* again; with no line left the loop and the with block end
TranChunk(call, name, chunk) ==
    IF chunk # <<>> THEN TranLines(HasRead(call, name, chunk), name)
    ELSE IF Unfinished(call.seen[name]) THEN TranLines(HandedLast(call, name), name)
    ELSE LoopGoesOn(call)

\* for line in f: ...: the next read of the file
TranRead ==
    /\ rd.pc = 99
    /\ TranChunk(rd.call, FileName(rd), Rest(FileName(rd), rd.call.seen[FileName(rd)].text))

\* monitor.read_transaction_log(start_time, end_time, direction), one
\* statement at a time
ReadTransactionLog ==
    \/ CallTransactionLog
    \/ TranExists
    \/ TranOpen
    \/ TranRead

\* Streamlit reruns the script on the next interaction: the frames of the
\* previous run are dropped
Rerun ==
    /\ rd.pc = 0
    /\ ~Idle
    /\ ret' = NoCall
    /\ shown' = NoShow
    /\ UNCHANGED <<clock, files, genRuns, produced, history, gen, namedFor, rd>>

\* the queries made while the generator runs: of one instant with every
\* filter, and over both minutes
GeneratorQueries ==
    {<<t, t, d>> : t \in QueryTimes, d \in DirectionFilters}
    \cup {<<M0, ClockValues[2], None>>, <<M0, ClockValues[2], SEND>>,
          <<ClockValues[1], ClockValues[2], RECV>>}

\* monitor.read_transaction_log(start_time, end_time, direction) is called
\* with one of these queries
CallQuery ==
    /\ Idle
    /\ \E q \in GeneratorQueries : TransactionCallOf(NoCall, q)

QueryTransactionLog ==
    \/ CallQuery
    \/ TranExists
    \/ TranOpen
    \/ TranRead

\* the repository: the generator and the dashboard's readers
Next ==
    \/ Tick
    \/ Generate
    \/ ReadSummaryLog
    \/ DisplayData
    \/ QueryTransactionLog
    \/ Rerun

Spec == Init /\ [][Next]_vars

\* the generator alone, run and run again as time passes
NextGenerator ==
    \/ Tick
    \/ Generate

SpecGenerator == Init /\ [][NextGenerator]_vars

\* the summary reader over the summary files an external producer leaves
NextSummary ==
    \/ Tick
    \/ ProduceSummary
    \/ ReadSummaryLog
    \/ DisplayData
    \/ Rerun

SpecSummary == Init /\ [][NextSummary]_vars

\* the transaction reader over the transaction files a producer leaves
NextTran ==
    \/ Tick
    \/ ProduceTran
    \/ ReadTransactionLog
    \/ Rerun

SpecTran == Init /\ [][NextTran]_vars

\* both readers over a directory that holds, for the first minute, at most
\* one summary file and one transaction file of any content
InitParse ==
    /\ clock = ClockValues[1]
    /\ \E p \in {"s", "r"}, q \in {"s", "r"},
          a \in SUBSET SummaryTexts, b \in SUBSET TranTexts(MinuteOf(ClockValues[1])) :
          /\ Cardinality(a) <= 1
          /\ Cardinality(b) <= 1
          /\ files = [n \in {SummaryFileName(p, clock) : t \in a}
                              \cup {TranFileName(q, clock) : t \in b} |->
                        IF n = SummaryFileName(p, clock)
                          THEN File(CHOOSE t \in a : TRUE, clock, "producer")
                          ELSE File(CHOOSE t \in b : TRUE, clock, "producer")]
    /\ ret = NoCall
    /\ shown = NoShow
    /\ genRuns = 0
    /\ produced = 0
    /\ history = <<>>
    /\ gen = GenIdle
    /\ namedFor = [n \in DOMAIN files |-> MinuteOf(clock)]
    /\ rd = RdIdle

NextParse ==
    \/ Tick
    \/ ReadSummaryLog
    \/ DisplayData
    \/ ReadTransactionLog
    \/ Rerun

SpecParse == InitParse /\ [][NextParse]_vars

\* display_data(stats, log_time, title): the metric cards when the frame has
\* rows, the "no data" notice when it is empty
display_data(out) ==
    IF out.records # <<>>
      THEN [kind |-> "metrics", rows |-> data_with_total(out.records),
            log_time |-> out.file_time]
    ELSE [kind |-> "info", rows |-> <<>>, log_time |-> None]

\* display_transaction_history: st.dataframe(tran_data) or the "no data" notice
display_transactions(out) ==
    IF out.records # <<>>
      THEN [kind |-> "dataframe", rows |-> out.records, log_time |-> None]
    ELSE [kind |-> "info", rows |-> <<>>, log_time |-> None]

\* the start/end times and filters the search form of a script run is
\* submitted with
SessionQueries ==
    {<<M0, M0, None>>, <<M0, M0, SEND>>, <<M0, M0, RECV>>,
     <<M0, ClockValues[2], None>>, <<M0, ClockValues[2], SEND>>,
     <<ClockValues[1], ClockValues[2], RECV>>}

\* main() is at its first statement: no read was made yet, or the previous
\* run of the script ended (after its last read, or in main's except clause
\* when a read raised)
RunStarts ==
    IF history = <<>> THEN TRUE
    ELSE history[Len(history)].out.raised
         \/ history[Len(history)].op = "read_transaction_log"
         \/ ~history[Len(history)].is_send

\* the call is made, its result displayed, and the run goes on
Called(call, display) ==
    /\ ret' = call
    /\ shown' = display
    /\ history' = Append(history, call)
    /\ UNCHANGED <<clock, files, genRuns, produced, gen, namedFor, rd>>

\* main(): send_stats, send_time = monitor.read_summary_log(is_send=True);
\* display_data(send_stats, send_time, ...)
MainSendSummary ==
    /\ Len(history) < MaxCalls
    /\ RunStarts
    /\ Called([NoCall EXCEPT !.op = "read_summary_log", !.is_send = TRUE,
                             !.now = <<clock>>, !.seen = files,
                             !.out = read_summary_log(files, clock, TRUE)],
              display_data(read_summary_log(files, clock, TRUE)))

\* main(): recv_stats, recv_time = monitor.read_summary_log(is_send=False);
\* display_data(recv_stats, recv_time, ...): reached when the statements
\* before it raised nothing
RecvSummaryReached ==
    /\ history # <<>>
    /\ history[Len(history)].op = "read_summary_log"
    /\ history[Len(history)].is_send
    /\ ~history[Len(history)].out.raised

MainRecvSummary ==
    /\ Len(history) < MaxCalls
    /\ RecvSummaryReached
    /\ Called([NoCall EXCEPT !.op = "read_summary_log", !.is_send = FALSE,
                             !.now = <<clock>>, !.seen = files,
                             !.out = read_summary_log(files, clock, FALSE)],
              display_data(read_summary_log(files, clock, FALSE)))

\* main(): display_transaction_history(monitor) with the search button
\* pressed: reached when the statements before it raised nothing
TransactionHistoryReached ==
    /\ history # <<>>
    /\ history[Len(history)].op = "read_summary_log"
    /\ ~history[Len(history)].is_send
    /\ ~history[Len(history)].out.raised

MainTransactionHistory ==
    /\ Len(history) < MaxCalls
    /\ TransactionHistoryReached
    /\ \E q \in SessionQueries :
          Called([NoCall EXCEPT !.op = "read_transaction_log",
                                !.start_time = q[1], !.end_time = q[2],
                                !.direction = q[3], !.seen = files,
                                !.out = read_transaction_log(files, q[1], q[2], q[3])],
                 display_transactions(read_transaction_log(files, q[1], q[2], q[3])))

\* the directory a dashboard session runs over: for the first minute, any
\* send summary file, a receive summary file, any send transaction file and
\* a receive transaction file, each possibly missing
InitSession ==
    /\ clock = ClockValues[1]
    /\ \E a \in SUBSET SummaryTexts, b \in SUBSET {SumOk, SumNotInt},
          c \in SUBSET TranTexts(MinuteOf(ClockValues[1])),
          d \in SUBSET {TranRecv(MinuteOf(ClockValues[1])),
                        TranFields(MinuteOf(ClockValues[1]))} :
          /\ Cardinality(a) <= 1
          /\ Cardinality(b) <= 1
          /\ Cardinality(c) <= 1
          /\ Cardinality(d) <= 1
          /\ files = [n \in {SummaryFileName("s", clock) : t \in a}
                              \cup {SummaryFileName("r", clock) : t \in b}
                              \cup {TranFileName("s", clock) : t \in c}
                              \cup {TranFileName("r", clock) : t \in d} |->
                        File(IF n = SummaryFileName("s", clock) THEN CHOOSE t \in a : TRUE
                             ELSE IF n = SummaryFileName("r", clock) THEN CHOOSE t \in b : TRUE
                             ELSE IF n = TranFileName("s", clock) THEN CHOOSE t \in c : TRUE
                             ELSE CHOOSE t \in d : TRUE,
                             clock, "producer")]
    /\ ret = NoCall
    /\ shown = NoShow
    /\ genRuns = 0
    /\ produced = 0
    /\ history = <<>>
    /\ gen = GenIdle
    /\ namedFor = [n \in DOMAIN files |-> MinuteOf(clock)]
    /\ rd = RdIdle

\* the dashboard script run and rerun over an unchanged directory
NextSession ==
    \/ MainSendSummary
    \/ MainRecvSummary
    \/ MainTransactionHistory

SpecSession == InitSession /\ [][NextSession]_vars

\* the instants of a session whose reads are repeated: two of the first
\* minute, one of the next
RepeatClock ==
    <<ClockValues[1], [ClockValues[1] EXCEPT !.second = 45], ClockValues[2]>>

\* a call whose return is kept in history
KeptCall == [NoCall EXCEPT !.writes = <<produced>>]

\* the session calls monitor.read_summary_log(is_send=True)
RepeatSummaryLog ==
    /\ rd.pc = 0
    /\ Len(history) < MaxRepeats
    /\ SummaryCall(KeptCall, TRUE)

\* the session calls monitor.read_transaction_log on the first minute
RepeatTransactionLog ==
    /\ rd.pc = 0
    /\ Len(history) < MaxRepeats
    /\ TransactionCallOf(KeptCall, <<M0, M0, None>>)

\* the producer rewrites the send summary file of the current minute
ProduceRepeated ==
    \E text \in {SumOk, SumSigned} : Produces(SummaryFileName("s", clock), text)

\* the directory the session starts over: the send summary file and the
\* send transaction file of the first minute
InitRepeat ==
    /\ clock = RepeatClock[1]
    /\ files = (SummaryFileName("s", clock) :> File(SumOk, clock, "producer"))
               @@ (TranFileName("s", clock) :> File(TranSend(MinuteOf(clock)), clock, "producer"))
    /\ ret = NoCall
    /\ shown = NoShow
    /\ genRuns = 0
    /\ produced = Cardinality(DOMAIN files)
    /\ history = <<>>
    /\ gen = GenIdle
    /\ namedFor = [n \in DOMAIN files |-> MinuteOf(clock)]
    /\ rd = RdIdle

\* a session that makes its reads again and again, beside the producer and
\* the clock
NextRepeat ==
    \/ Passes(RepeatClock)
    \/ ProduceRepeated
    \/ RepeatSummaryLog
    \/ SummaryExists
    \/ SummaryOpen
    \/ SummaryRead
    \/ SummaryGetmtime
    \/ RepeatTransactionLog
    \/ TranExists
    \/ TranOpen
    \/ TranRead

SpecRepeat == InitRepeat /\ [][NextRepeat]_vars

\* a year passes: the clock shows the same month, day, hour and minute again
\* (no 29 February among the clock values)
NextYear ==
    /\ clock.year < ClockValues[1].year + MaxYears
    /\ clock' = [clock EXCEPT !.year = @ + 1]
    /\ UNCHANGED <<files, ret, shown, genRuns, produced, history, gen, namedFor, rd>>

\* the generator and the summary reader over the years (the queries of the
\* transaction reader are all of the first year)
NextOverYears ==
    \/ Tick
    \/ NextYear
    \/ Generate
    \/ ReadSummaryLog
    \/ DisplayData
    \/ Rerun

SpecOverYears == Init /\ [][NextOverYears]_vars

-----------------------------------------------------------------------------
(* What the properties below are stated with *)

\* A call that has returned is in ret: ret.now is the time it read at line
\* 48, ret.seen the files it opened, each with the text its reads returned
\* (a file it looked for and did not find is not in ret.seen), ret.out what
\* it returned.  What a read returns is stated against ret.seen and
\* ret.now: the directory and the clock may have moved on since.  A file a
\* writer rewrote between two reads of the call is in ret.torn: what the
\* call read of it is the start of one text and the end of another, or the
\* lines of one text and then a piece of another, lines the file never
\* held; what is said below of the content of a file is said of the files
\* the call read whole.

IsSummaryRead == ret.op = "read_summary_log"

IsTranRead == ret.op = "read_transaction_log"

\* the text the call read of the file is one the file held while it was
\* read: no writer rewrote the file between two reads of the call
ReadWhole(name) == name \notin ret.torn

\* the summary file a read_summary_log(is_send) made at time now is about
SummaryFileOf(is_send, now) ==
    <<IF is_send THEN "s" ELSE "r", ".ksd653.log.">> \o StampMDHM(now)

LinesOf(dir, name) == FileLines(dir[name].text)

\* a `code:count` line the summary parser accepts
WellFormedSummaryLine(line) ==
    LET f == split(strip(line), ":") IN Len(f) = 2 /\ int(f[2]).ok

\* a `timestamp:result_file:code:direction` line the transaction parser accepts
WellFormedTranLine(line) ==
    LET f == split(strip(line), ":") IN Len(f) = 4 /\ strptime(f[1]).ok

WellFormedSummaryFile(dir, name) ==
    \A i \in 1..Len(LinesOf(dir, name)) : WellFormedSummaryLine(LinesOf(dir, name)[i])

WellFormedTranFile(dir, name) ==
    \A i \in 1..Len(LinesOf(dir, name)) : WellFormedTranLine(LinesOf(dir, name)[i])

\* the call logged that it looked for this file
Probed(name) ==
    \E i \in 1..Len(ret.out.log) :
        ret.out.log[i].level = "INFO" /\ ret.out.log[i].about = name

\* how many failures the call reported
ErrorsLogged ==
    Cardinality({i \in 1..Len(ret.out.log) : ret.out.log[i].level = "ERROR"})

\* the call returned what it returns for a missing file
EmptyResult == ret.out.records = <<>> /\ ret.out.file_time = None

\* the call read a file that holds a malformed line
ReadMalformed ==
    \/ /\ IsSummaryRead
       /\ Exists(ret.seen, SummaryFileOf(ret.is_send, ret.now[1]))
       /\ ~WellFormedSummaryFile(ret.seen, SummaryFileOf(ret.is_send, ret.now[1]))
    \/ /\ IsTranRead
       /\ \E name \in DOMAIN ret.seen : Probed(name) /\ ~WellFormedTranFile(ret.seen, name)

\* what a well-formed transaction file holds, line by line
FileTransactions(dir, name) ==
    [i \in 1..Len(LinesOf(dir, name)) |->
        LET f == split(strip(LinesOf(dir, name)[i]), ":")
        IN  [timestamp |-> strptime(f[1]).val, result_file |-> f[2],
             ksd_code |-> f[3], direction |-> f[4]]]

\* the returned transaction records without the derived business name
ReturnedTransactions ==
    [i \in 1..Len(ret.out.records) |->
        [timestamp |-> ret.out.records[i].timestamp,
         result_file |-> ret.out.records[i].result_file,
         ksd_code |-> ret.out.records[i].ksd_code,
         direction |-> ret.out.records[i].direction]]

\* the minutes a range covers: that of start_time, and on to that of end_time
RECURSIVE MinutesFrom(_, _)
MinutesFrom(m, end_time) ==
    IF ~DtLeq(m, end_time) THEN <<>> ELSE <<m>> \o MinutesFrom(AddMinute(m), end_time)

MinutesOfRange(start_time, end_time) == MinutesFrom(MinuteOf(start_time), end_time)

\* the prefixes a direction filter selects
FilterPrefixes(direction) ==
    IF direction = SEND THEN {"s"} ELSE IF direction = RECV THEN {"r"} ELSE {"s", "r"}

TranFileOf(prefix, m) == <<prefix, ".tran.ksd653.log.">> \o StampMDHM(m)

\* round(n / d) to the nearest integer, ties to even (d # 0)
RoundHalfEven(n, d) ==
    LET nn == IF d < 0 THEN 0 - n ELSE n
        dd == IF d < 0 THEN 0 - d ELSE d
        a == IF nn < 0 THEN 0 - nn ELSE nn
        q == a \div dd
        r == a % dd
        m == IF 2 * r > dd THEN q + 1
             ELSE IF 2 * r < dd THEN q
             ELSE q + (q % 2)
    IN  IF nn < 0 THEN 0 - m ELSE m

\* a finite percentage in hundredths of a percent, as round(p, 2) shows it:
\* round(100 * num / den), the whole part of num / den taken out first so
\* that no product leaves the range of the integers
Hundredths(p) ==
    LET n == IF p.den < 0 THEN 0 - p.num ELSE p.num
        d == IF p.den < 0 THEN 0 - p.den ELSE p.den
        a == IF n < 0 THEN 0 - n ELSE n
        m == 100 * (a \div d) + RoundHalfEven(100 * (a % d), d)
    IN  IF n < 0 THEN 0 - m ELSE m

RECURSIVE SumHundredths(_, _)
SumHundredths(records, i) ==
    IF i > Len(records) THEN 0
    ELSE Hundredths(records[i].percentage) + SumHundredths(records, i + 1)

RECURSIVE TotalCount(_, _)
TotalCount(records, i) ==
    IF i > Len(records) THEN 0 ELSE records[i].count + TotalCount(records, i + 1)

AllFinite(records) == \A i \in 1..Len(records) : records[i].percentage.kind = "num"

\* the percentages add up to 100, within the rounding of each to 2 decimals
SumsToHundred(records) ==
    /\ AllFinite(records)
    /\ LET diff == SumHundredths(records, 1) - 10000
       IN  2 * diff <= Len(records) /\ 2 * (0 - diff) <= Len(records)

-----------------------------------------------------------------------------
(* Properties *)

\* C1: read_summary_log for a direction whose summary file of the minute of
\* the call did not exist when the call looked for it returns no record and
\* no file time, and no exception leaves it.
C1_MissingSummaryIsEmpty ==
    (IsSummaryRead /\ ~Exists(ret.seen, SummaryFileOf(ret.is_send, ret.now[1])))
        => (EmptyResult /\ ~ret.out.raised /\ ErrorsLogged = 0)

\* C1 witness: the send summary was read and its file was missing, while the
\* receive file of the same minute holds records.
C1_Witness ==
    /\ IsSummaryRead
    /\ ret.is_send
    /\ ~Exists(ret.seen, SummaryFileOf(TRUE, ret.now[1]))
    /\ Exists(files, SummaryFileOf(FALSE, ret.now[1]))
    /\ files[SummaryFileOf(FALSE, ret.now[1])].text = SumOk
    /\ EmptyResult

\* C2 as claimed: a read of a file that holds a malformed line ends with the
\* parse error propagated to the caller.
C2_MalformedIsPropagated == ReadMalformed => ret.out.raised

\* C2 amended: a malformed line aborts the read (it is not skipped and
\* nothing of the read is returned), but the reader catches the error itself:
\* it reports it once and returns to its caller the empty result it returns
\* for a missing file; no exception reaches the caller.
C2_MalformedIsCaughtAndEmpty ==
    ReadMalformed => (~ret.out.raised /\ EmptyResult /\ ErrorsLogged = 1)

\* C2 witness: a transaction read over a file whose second line has three
\* fields, and a summary read over a file with a non-integer count, each
\* ended empty.
C2_Witness ==
    /\ ReadMalformed
    /\ EmptyResult
    /\ \/ IsTranRead /\ \E name \in DOMAIN ret.seen :
             Probed(name) /\ ret.seen[name].text = TranFields(MinuteOf(ClockValues[1]))
       \/ IsSummaryRead /\ ret.seen[SummaryFileOf(ret.is_send, ret.now[1])].text = SumNotInt

\* C3 as claimed: a read over start_time <= end_time that did not fail has
\* probed the transaction file of every minute from that of start_time to
\* that of end_time, for each prefix of the filter, and returned the records
\* of those that exist.
C3_EveryMinuteOfRangeIsProbed ==
    (IsTranRead /\ DtLeq(ret.start_time, ret.end_time)
       /\ \A name \in DOMAIN ret.seen : WellFormedTranFile(ret.seen, name))
    => \A k \in 1..Len(MinutesOfRange(ret.start_time, ret.end_time)) :
          \A prefix \in FilterPrefixes(ret.direction) :
             LET name == TranFileOf(prefix, MinutesOfRange(ret.start_time, ret.end_time)[k])
             IN  /\ Probed(name)
                 /\ Exists(ret.seen, name) =>
                       \A i \in 1..Len(FileTransactions(ret.seen, name)) :
                          \E j \in 1..Len(ReturnedTransactions) :
                             ReturnedTransactions[j] = FileTransactions(ret.seen, name)[i]

\* C4: over a summary file of N >= 1 well-formed lines, read whole,
\* read_summary_log returns exactly N records, the i-th with the code and the
\* integer count of line i; displayed, they come after a TOTAL row placed
\* first whose count is the sum of the N counts and whose percentage is 100.
C4_OneRecordPerLinePlusTotal ==
    (IsSummaryRead
       /\ Exists(ret.seen, SummaryFileOf(ret.is_send, ret.now[1]))
       /\ ReadWhole(SummaryFileOf(ret.is_send, ret.now[1]))
       /\ WellFormedSummaryFile(ret.seen, SummaryFileOf(ret.is_send, ret.now[1]))
       /\ Len(LinesOf(ret.seen, SummaryFileOf(ret.is_send, ret.now[1]))) >= 1)
    => LET lines == LinesOf(ret.seen, SummaryFileOf(ret.is_send, ret.now[1]))
           records == ret.out.records
       IN  /\ Len(records) = Len(lines)
           /\ \A i \in 1..Len(lines) :
                 LET f == split(strip(lines[i]), ":")
                 IN  records[i].ksd_code = f[1] /\ records[i].count = int(f[2]).val
           /\ shown # NoShow =>
                 /\ shown.kind = "metrics"
                 /\ Len(shown.rows) = Len(lines) + 1
                 /\ shown.rows[1].ksd_code = <<"T", "O", "T", "A", "L">>
                 /\ shown.rows[1].count = TotalCount(records, 1)
                 /\ shown.rows[1].percentage = [kind |-> "num", num |-> 100, den |-> 1]
                 /\ \A i \in 1..Len(records) :
                       \E j \in 2..Len(shown.rows) : shown.rows[j] = records[i]

\* C4 witness: the three-line file 633:1 / 631:3 / 632:2 was read whole and
\* displayed: three records in line order under a TOTAL row of 6.
C4_Witness ==
    /\ IsSummaryRead
    /\ Exists(ret.seen, SummaryFileOf(ret.is_send, ret.now[1]))
    /\ ReadWhole(SummaryFileOf(ret.is_send, ret.now[1]))
    /\ ret.seen[SummaryFileOf(ret.is_send, ret.now[1])].text = SumThree
    /\ Len(ret.out.records) = 3
    /\ ret.out.records[1].count = 1
    /\ shown.kind = "metrics"
    /\ Len(shown.rows) = 4
    /\ shown.rows[1].count = 6

\* C5: over a well-formed summary file, read whole, whose counts sum to
\* total > 0, every record's percentage is count / total * 100 and the
\* percentages sum to 100 within rounding; 631:150 and 632:200 give 42.86
\* and 57.14 of 350.
C5_PercentageOfTotal ==
    (IsSummaryRead
       /\ Exists(ret.seen, SummaryFileOf(ret.is_send, ret.now[1]))
       /\ ReadWhole(SummaryFileOf(ret.is_send, ret.now[1]))
       /\ WellFormedSummaryFile(ret.seen, SummaryFileOf(ret.is_send, ret.now[1]))
       /\ TotalCount(ret.out.records, 1) > 0)
    => LET records == ret.out.records
           total == TotalCount(records, 1)
       IN  /\ \A i \in 1..Len(records) :
                 /\ records[i].percentage.kind = "num"
                 /\ records[i].percentage.num * total
                      = records[i].count * 100 * records[i].percentage.den
           /\ SumsToHundred(records)
           /\ ret.seen[SummaryFileOf(ret.is_send, ret.now[1])].text = SumOk =>
                 /\ total = 350
                 /\ Hundredths(records[1].percentage) = 4286
                 /\ Hundredths(records[2].percentage) = 5714

\* C5 witness: the file 631:150 / 632:200 was read whole and gave two
\* records.
C5_Witness ==
    /\ IsSummaryRead
    /\ Exists(ret.seen, SummaryFileOf(ret.is_send, ret.now[1]))
    /\ ReadWhole(SummaryFileOf(ret.is_send, ret.now[1]))
    /\ ret.seen[SummaryFileOf(ret.is_send, ret.now[1])].text = SumOk
    /\ Len(ret.out.records) = 2
    /\ Hundredths(ret.out.records[1].percentage) = 4286

\* C6 as claimed: whenever read_summary_log returns at least one record, the
\* percentages of the records sum to 100, whatever the counts.
C6_PercentagesAlwaysSumToHundred ==
    (IsSummaryRead /\ ret.out.records # <<>>) => SumsToHundred(ret.out.records)

\* C6 amended: whenever read_summary_log returns at least one record and the
\* counts sum to a total other than 0, the percentages sum to 100 within
\* rounding; when the counts sum to 0 no percentage is a finite number (each
\* is nan or an infinity) and they do not sum to 100.
C6_PercentagesSumToHundredUnlessTotalZero ==
    (IsSummaryRead /\ ret.out.records # <<>>)
    => /\ TotalCount(ret.out.records, 1) # 0 => SumsToHundred(ret.out.records)
       /\ TotalCount(ret.out.records, 1) = 0 =>
             \A i \in 1..Len(ret.out.records) :
                ret.out.records[i].percentage.kind # "num"

\* C6 witness: a file whose counts are all 0 was read and gave two records
\* whose percentage is nan.
C6_Witness ==
    /\ IsSummaryRead
    /\ Len(ret.out.records) = 2
    /\ TotalCount(ret.out.records, 1) = 0
    /\ ret.out.records[1].count = 0
    /\ ret.out.records[1].percentage.kind = "nan"

\* C7: read_transaction_log(t, t, None) looks for the send and for the
\* receive file of minute t; when it found both, read each whole, and they
\* are well formed, it returns exactly the records of the send file
\* followed by those of the receive file, each with the direction written
\* on its line.
C7_SingleMinuteUnionOfBothFiles ==
    /\ (IsTranRead /\ ret.start_time = ret.end_time /\ ret.direction = None
          /\ ErrorsLogged = 0)
       => (Probed(TranFileOf("s", ret.start_time))
           /\ Probed(TranFileOf("r", ret.start_time)))
    /\ (IsTranRead
       /\ ret.start_time = ret.end_time
       /\ ret.direction = None
       /\ Exists(ret.seen, TranFileOf("s", ret.start_time))
       /\ Exists(ret.seen, TranFileOf("r", ret.start_time))
       /\ ReadWhole(TranFileOf("s", ret.start_time))
       /\ ReadWhole(TranFileOf("r", ret.start_time))
       /\ WellFormedTranFile(ret.seen, TranFileOf("s", ret.start_time))
       /\ WellFormedTranFile(ret.seen, TranFileOf("r", ret.start_time)))
       => ReturnedTransactions
            = FileTransactions(ret.seen, TranFileOf("s", ret.start_time))
              \o FileTransactions(ret.seen, TranFileOf("r", ret.start_time))

\* C7 witness: both files of the minute hold records, the receive file holds
\* SEND lines too, and the single-minute read returned more than the send
\* file's records.
C7_Witness ==
    /\ IsTranRead
    /\ ret.start_time = ret.end_time
    /\ ret.direction = None
    /\ Exists(ret.seen, TranFileOf("s", ret.start_time))
    /\ Exists(ret.seen, TranFileOf("r", ret.start_time))
    /\ ret.torn = {}
    /\ ret.seen[TranFileOf("s", ret.start_time)].text = TranRecv(MinuteOf(ret.start_time))
    /\ ret.seen[TranFileOf("r", ret.start_time)].text = TranSend(MinuteOf(ret.start_time))
    /\ Len(ret.out.records) = 4
    /\ ret.out.records[1].direction = RECV
    /\ ret.out.records[4].direction = SEND

\* what the minutes start_time, start_time + 1 min, ... <= end_time hold for
\* the prefixes of the filter, missing files counting for nothing
RECURSIVE ExistingTransactions(_, _, _, _)
ExistingTransactions(dir, current, end_time, direction) ==
    IF ~DtLeq(current, end_time) THEN <<>>
    ELSE LET s == TranFileOf("s", current)
             r == TranFileOf("r", current)
         IN  (IF "s" \in FilterPrefixes(direction) /\ Exists(dir, s)
                THEN FileTransactions(dir, s) ELSE <<>>)
             \o (IF "r" \in FilterPrefixes(direction) /\ Exists(dir, r)
                   THEN FileTransactions(dir, r) ELSE <<>>)
             \o ExistingTransactions(dir, AddMinute(current), end_time, direction)

\* some minute the loop visits has no file for a prefix of the filter
RECURSIVE VisitsMissing(_, _, _, _)
VisitsMissing(dir, current, end_time, direction) ==
    /\ DtLeq(current, end_time)
    /\ \/ \E p \in FilterPrefixes(direction) : ~Exists(dir, TranFileOf(p, current))
       \/ VisitsMissing(dir, AddMinute(current), end_time, direction)

\* C8: a read over a range none of whose per-minute files exists returns an
\* empty result and reports no error; a missing per-minute file in a range
\* that has well-formed files, each read whole, is skipped, the records of
\* the other files being returned unaffected.
C8_MissingFilesAreSkipped ==
    (IsTranRead
       /\ \A name \in DOMAIN ret.seen :
             ReadWhole(name) /\ WellFormedTranFile(ret.seen, name))
    => /\ ~ret.out.raised
       /\ ErrorsLogged = 0
       /\ ReturnedTransactions
            = ExistingTransactions(ret.seen, ret.start_time, ret.end_time, ret.direction)
       /\ ret.seen = NoFiles => ret.out.records = <<>>

\* C8 witness: a two-minute read found the first minute's send file missing
\* and returned the records of the second minute's.
C8_Witness ==
    /\ IsTranRead
    /\ ret.direction = SEND
    /\ ret.start_time = M0
    /\ DtLess(M1, ret.end_time)
    /\ ~Exists(ret.seen, TranFileOf("s", M0))
    /\ Exists(ret.seen, TranFileOf("s", M1))
    /\ ReadWhole(TranFileOf("s", M1))
    /\ VisitsMissing(ret.seen, ret.start_time, ret.end_time, ret.direction)
    /\ Len(ret.out.records) = 2

\* the file the generator has opened and not yet written, if it is running
OpenByGenerator ==
    IF gen.pc = 49 THEN {SummaryFileName("s", gen.current_time[1])}
    ELSE IF gen.pc = 53 THEN {SummaryFileName("r", gen.current_time[1])}
    ELSE IF gen.pc = 74 THEN {TranFileName("s", gen.current_time[1])}
    ELSE IF gen.pc = 78 THEN {TranFileName("r", gen.current_time[1])}
    ELSE {}

\* the generator has written the file: it is there, the generator wrote it
\* last and has closed it
Generated(name) ==
    /\ Exists(files, name)
    /\ files[name].by = "generator"
    /\ name \notin OpenByGenerator

\* the call read the file as the generator had written it: the generator
\* wrote it last and had closed it (an open file is empty till the write)
ReadGenerated(name) ==
    /\ Exists(ret.seen, name)
    /\ ret.seen[name].by = "generator"
    /\ ret.seen[name].text # <<>>

\* C9: a read_summary_log that read a file the generator had written for the
\* minute of the call returns 10 records, for either direction; a
\* read_transaction_log(t, t, filter) that read the generator's files of the
\* minute of t returns 20 records for SEND, 20 for RECV, and both lots
\* without a filter.
C9_GeneratorRoundTrip ==
    /\ (IsSummaryRead /\ ReadGenerated(SummaryFileOf(ret.is_send, ret.now[1])))
       => Len(ret.out.records) = 10
    /\ (IsTranRead /\ ret.start_time = ret.end_time)
       => /\ (ret.direction = SEND /\ ReadGenerated(TranFileOf("s", ret.start_time)))
             => Len(ret.out.records) = 20
          /\ (ret.direction = RECV /\ ReadGenerated(TranFileOf("r", ret.start_time)))
             => Len(ret.out.records) = 20
          /\ (ret.direction = None /\ ReadGenerated(TranFileOf("s", ret.start_time))
                /\ ReadGenerated(TranFileOf("r", ret.start_time)))
             => Len(ret.out.records) = 40

\* C9 witness: a run of the generator has ended in the minute it was started
\* in, and the receive transactions of that minute were then read back from
\* the file as the run left it.
C9_Witness ==
    /\ IsTranRead
    /\ genRuns > 0
    /\ gen = GenIdle
    /\ ret.start_time = clock
    /\ ret.end_time = clock
    /\ ret.direction = RECV
    /\ Generated(TranFileOf("r", clock))
    /\ ReadGenerated(TranFileOf("r", clock))
    /\ ret.seen[TranFileOf("r", clock)].text = files[TranFileOf("r", clock)].text
    /\ ret.seen[TranFileOf("r", clock)].mtime = files[TranFileOf("r", clock)].mtime
    /\ namedFor[TranFileOf("r", clock)] = MinuteOf(clock)
    /\ MinuteOf(files[TranFileOf("r", clock)].mtime) = MinuteOf(clock)
    /\ Len(ret.out.records) = 20

\* C10: every record a reader returns carries, for a code outside 631..640,
\* the label for undefined business, and for a code 631..640 its fixed
\* label; a well-formed file with unknown codes is read without failure.
C10_UnknownCodeGetsUndefinedLabel ==
    /\ \A i \in 1..Len(ret.out.records) :
          LET code == ret.out.records[i].ksd_code
              label == ret.out.records[i].business_name
          IN  CASE code = <<"6", "3", "1">> -> label = "stock buy"
                [] code = <<"6", "3", "2">> -> label = "stock sell"
                [] code = <<"6", "3", "3">> -> label = "balance inquiry"
                [] code = <<"6", "3", "4">> -> label = "account inquiry"
                [] code = <<"6", "3", "5">> -> label = "quote inquiry"
                [] code = <<"6", "3", "6">> -> label = "execution check"
                [] code = <<"6", "3", "7">> -> label = "deposit inquiry"
                [] code = <<"6", "3", "8">> -> label = "history inquiry"
                [] code = <<"6", "3", "9">> -> label = "account transfer"
                [] code = <<"6", "4", "0">> -> label = "credit trading"
                [] OTHER -> label = "undefined business"
    /\ (IsSummaryRead
          /\ Exists(ret.seen, SummaryFileOf(ret.is_send, ret.now[1]))
          /\ WellFormedSummaryFile(ret.seen, SummaryFileOf(ret.is_send, ret.now[1])))
       => (~ret.out.raised /\ ErrorsLogged = 0
           /\ Len(ret.out.records) = Len(LinesOf(ret.seen, SummaryFileOf(ret.is_send, ret.now[1]))))
    /\ (IsTranRead /\ \A name \in DOMAIN ret.seen :
                         Probed(name) => WellFormedTranFile(ret.seen, name))
       => (~ret.out.raised /\ ErrorsLogged = 0)

\* C10 witness: a summary file with code 999, or a transaction file with
\* code 700, was read and the record came back with the undefined label.
C10_Witness ==
    \E i \in 1..Len(ret.out.records) :
        /\ ret.out.records[i].ksd_code \in {<<"9", "9", "9">>, <<"7", "0", "0">>}
        /\ ret.out.records[i].business_name = UNDEFINED_BUSINESS
        /\ ErrorsLogged = 0

\* how many failures a call of the session reported
ErrorsIn(call) ==
    Cardinality({i \in 1..Len(call.out.log) : call.out.log[i].level = "ERROR"})

\* the files a call of the session looked for
ProbedBy(call) ==
    {call.out.log[i].about : i \in {j \in 1..Len(call.out.log) : call.out.log[j].level = "INFO"}}

\* the number of lines of the existing files a transaction call looked for
RECURSIVE LinesProbed(_, _)
LinesProbed(dir, names) ==
    IF names = {} THEN 0
    ELSE LET n == CHOOSE x \in names : TRUE
         IN  (IF Exists(dir, n) THEN Len(LinesOf(dir, n)) ELSE 0) + LinesProbed(dir, names \ {n})

\* C11: whatever the files hold, no read of a session ends with an exception
\* leaving it; after a send-summary read, failed or not, the receive-summary
\* read is next to run, and after it the transaction query; and a read of a
\* well-formed file returns that file's records whatever the reads before it
\* met.
C11_NoReadFailureIsFatal ==
    /\ \A i \in 1..Len(history) : ~history[i].out.raised
    /\ history # <<>> =>
          IF history[Len(history)].op = "read_summary_log" /\ history[Len(history)].is_send
            THEN RecvSummaryReached
          ELSE IF history[Len(history)].op = "read_summary_log"
            THEN TransactionHistoryReached
          ELSE RunStarts
    /\ \A i \in 1..Len(history) :
          /\ (history[i].op = "read_summary_log"
                /\ Exists(files, SummaryFileOf(history[i].is_send, clock))
                /\ WellFormedSummaryFile(files, SummaryFileOf(history[i].is_send, clock)))
             => /\ ErrorsIn(history[i]) = 0
                /\ Len(history[i].out.records)
                     = Len(LinesOf(files, SummaryFileOf(history[i].is_send, clock)))
          /\ (history[i].op = "read_transaction_log"
                /\ \A n \in ProbedBy(history[i]) :
                      Exists(files, n) => WellFormedTranFile(files, n))
             => /\ ErrorsIn(history[i]) = 0
                /\ Len(history[i].out.records) = LinesProbed(files, ProbedBy(history[i]))

\* C11 witness: the send-summary read of a run failed on a non-integer
\* count, the receive-summary read of the same run returned its two records
\* and the transaction query its records.
C11_Witness ==
    /\ Len(history) >= 3
    /\ history[1].op = "read_summary_log" /\ history[1].is_send
    /\ Exists(files, SummaryFileOf(TRUE, clock))
    /\ files[SummaryFileOf(TRUE, clock)].text = SumNotInt
    /\ ErrorsIn(history[1]) = 1
    /\ history[1].out.records = <<>>
    /\ history[2].op = "read_summary_log" /\ ~history[2].is_send
    /\ Len(history[2].out.records) = 2
    /\ history[3].op = "read_transaction_log"
    /\ Len(history[3].out.records) = 4

\* the minute and the direction prefix a file of the directory was written for
WrittenMinute(name) == namedFor[name]

WrittenPrefix(name) == name[1]

\* the names the readers compute now for files that are in the directory
NamedNow(prefix) ==
    {n \in {SummaryFileName(prefix, clock), TranFileName(prefix, clock)} : Exists(files, n)}

\* C12 as claimed: the file a reader names for a direction and the current
\* minute is the file written for that direction and that very minute.
C12_KeyIdentifiesOneMinute ==
    \A prefix \in {"s", "r"} : \A n \in NamedNow(prefix) :
        WrittenPrefix(n) = prefix /\ WrittenMinute(n) = MinuteOf(clock)

\* C12 amended: the file a reader names for a direction and the current
\* minute is a file written for that direction in a minute of the same
\* month, day, hour and minute, of whatever year; the summary name and the
\* transaction name of a key are different names.
C12_KeyIdentifiesOneMinuteOfTheYear ==
    /\ \A prefix \in {"s", "r"} : \A n \in NamedNow(prefix) :
          /\ WrittenPrefix(n) = prefix
          /\ WrittenMinute(n).month = clock.month
          /\ WrittenMinute(n).day = clock.day
          /\ WrittenMinute(n).hour = clock.hour
          /\ WrittenMinute(n).minute = clock.minute
    /\ \A p \in {"s", "r"}, q \in {"s", "r"} :
          SummaryFileName(p, clock) # TranFileName(q, clock)
    /\ SummaryFileName("s", clock) # SummaryFileName("r", clock)
    /\ TranFileName("s", clock) # TranFileName("r", clock)

\* C12 witness: a year after the generator ran, the send summary of the
\* current minute was read and the ten records written the year before came
\* back.
C12_Witness ==
    /\ IsSummaryRead
    /\ ret.is_send
    /\ ret.now = <<clock>>
    /\ Exists(files, SummaryFileName("s", clock))
    /\ DOMAIN ret.seen = {SummaryFileName("s", clock)}
    /\ ReadWhole(SummaryFileName("s", clock))
    /\ ret.seen[SummaryFileName("s", clock)].text = files[SummaryFileName("s", clock)].text
    /\ ret.seen[SummaryFileName("s", clock)].mtime = files[SummaryFileName("s", clock)].mtime
    /\ WrittenMinute(SummaryFileName("s", clock)).year = clock.year - 1
    /\ Len(ret.out.records) = 10
    /\ ret.out.file_time = <<files[SummaryFileName("s", clock)].mtime>>

\* the names the call logged that it looked for
ProbedNames ==
    {ret.out.log[i].about : i \in {j \in 1..Len(ret.out.log) : ret.out.log[j].level = "INFO"}}

\* the values current takes in the loop of the call: start_time, then a
\* minute more each time, while it is not after end_time
RECURSIVE LoopTimes(_, _)
LoopTimes(current, end_time) ==
    IF ~DtLeq(current, end_time) THEN {}
    ELSE {current} \cup LoopTimes(AddMinute(current), end_time)

\* the lines of the files the call opened: <<name, line number>>
LinesOpened ==
    UNION {{<<n, l>> : l \in 1..Len(LinesOf(ret.seen, n))} : n \in DOMAIN ret.seen}

\* C13: a read with filter SEND looks only for s-prefixed transaction files,
\* with RECV only for r-prefixed ones, and without a filter for both; a read
\* that did not fail has looked for the file of every prefix of its filter at
\* every turn of its loop; and every record it returned is a line of a file
\* of a prefix of its filter that it looked for and read whole, one record
\* for each of these lines, whatever the files of the other direction hold.
C13_DirectionFilter ==
    IsTranRead =>
      /\ \A n \in ProbedNames :
            /\ n[1] \in FilterPrefixes(ret.direction)
            /\ \E t \in LoopTimes(ret.start_time, ret.end_time) : n = TranFileOf(n[1], t)
      /\ ErrorsLogged = 0 =>
            \A t \in LoopTimes(ret.start_time, ret.end_time) :
               \A prefix \in {"s", "r"} :
                  Probed(TranFileOf(prefix, t)) <=> prefix \in FilterPrefixes(ret.direction)
      /\ (ErrorsLogged = 0 /\ ret.torn = {}) =>
            /\ Len(ret.out.records) = Cardinality(LinesOpened)
            /\ \A i \in 1..Len(ret.out.records) :
                  \E o \in LinesOpened :
                     /\ o[1] \in ProbedNames
                     /\ o[1][1] \in FilterPrefixes(ret.direction)
                     /\ ReturnedTransactions[i] = FileTransactions(ret.seen, o[1])[o[2]]

\* C13 witness: both files of the minute hold two records, the read with
\* filter SEND returned the two of the s-prefixed file and did not look for
\* the r-prefixed one.
C13_Witness ==
    /\ IsTranRead
    /\ ret.direction = SEND
    /\ ret.start_time = M0
    /\ ret.end_time = M0
    /\ Exists(ret.seen, TranFileOf("s", M0))
    /\ Exists(files, TranFileOf("r", M0))
    /\ ReadWhole(TranFileOf("s", M0))
    /\ ret.seen[TranFileOf("s", M0)].text = TranSend(M0)
    /\ files[TranFileOf("r", M0)].text = TranRecv(M0)
    /\ Len(ret.out.records) = 2
    /\ Probed(TranFileOf("s", M0))
    /\ ~Probed(TranFileOf("r", M0))

\* the names the call looked for, in the order it looked for them
RECURSIVE ProbeOrder(_)
ProbeOrder(i) ==
    IF i > Len(ret.out.log) THEN <<>>
    ELSE (IF ret.out.log[i].level = "INFO" THEN <<ret.out.log[i].about>> ELSE <<>>)
         \o ProbeOrder(i + 1)

\* C14: a transaction read over several minutes that opened a file with a
\* malformed line, and read it whole, returns no record at all, whatever the well-formed files
\* it opened before hold; the failure is reported once, as the last thing
\* the call does; no file is looked for twice, and none after the file that
\* failed.
C14_BadLineAbortsWholeRead ==
    (IsTranRead
       /\ DtLeq(AddMinute(MinuteOf(ret.start_time)), ret.end_time)
       /\ \E n \in ProbedNames :
             Exists(ret.seen, n) /\ ReadWhole(n) /\ ~WellFormedTranFile(ret.seen, n))
    => /\ ret.out.records = <<>>
       /\ ~ret.out.raised
       /\ ErrorsLogged = 1
       /\ ret.out.log[Len(ret.out.log)].level = "ERROR"
       /\ \A i \in 1..Len(ProbeOrder(1)) : \A j \in 1..Len(ProbeOrder(1)) :
             ProbeOrder(1)[i] = ProbeOrder(1)[j] => i = j
       /\ Exists(ret.seen, ProbeOrder(1)[Len(ProbeOrder(1))])
       /\ ~WellFormedTranFile(ret.seen, ProbeOrder(1)[Len(ProbeOrder(1))])
       /\ \A i \in 1..(Len(ProbeOrder(1)) - 1) :
             Exists(ret.seen, ProbeOrder(1)[i]) => WellFormedTranFile(ret.seen, ProbeOrder(1)[i])

\* C14 witness: the send file of the first minute holds two good records,
\* a file of the second minute has a line of three fields, and the read
\* over both minutes returned nothing and reported one failure.
C14_Witness ==
    /\ IsTranRead
    /\ ret.start_time = M0
    /\ ret.end_time = ClockValues[2]
    /\ ret.direction = None
    /\ Exists(ret.seen, TranFileOf("s", M0))
    /\ ret.seen[TranFileOf("s", M0)].text = TranSend(M0)
    /\ Exists(ret.seen, TranFileOf("r", M1))
    /\ ret.torn = {}
    /\ ret.seen[TranFileOf("r", M1)].text = TranFields(M1)
    /\ Probed(TranFileOf("s", M0))
    /\ Probed(TranFileOf("r", M1))
    /\ ret.out.records = <<>>
    /\ ErrorsLogged = 1

\* the transaction files in the directory that the generator wrote
GeneratedTranFiles ==
    {n \in DOMAIN files : files[n].by = "generator" /\ n[2] = ".tran.ksd653.log."}

\* the timestamps on the lines of a well-formed transaction file
TimestampsOn(lines) ==
    {strptime(split(strip(lines[i]), ":")[1]).val : i \in 1..Len(lines)}

\* the timestamps on the lines of every text a transaction file can hold,
\* computed once
TimestampsOfText == [text \in TransactionTexts |-> TimestampsOn(FileLines(text))]

TimestampsOf(dir, name) == TimestampsOfText[dir[name].text]

\* C15 as claimed: every record of a transaction file the generator wrote
\* for minute m has its timestamp within m: m <= timestamp < m + 1 minute.
C15_GeneratedTimestampsWithinMinute ==
    \A n \in GeneratedTranFiles : \A ts \in TimestampsOf(files, n) :
        /\ DtLeq(WrittenMinute(n), ts)
        /\ DtLess(ts, AddMinute(WrittenMinute(n)))

\* two calls of the session were made with the same arguments
SameRead(a, b) ==
    /\ a.op = b.op
    /\ a.is_send = b.is_send
    /\ a.start_time = b.start_time
    /\ a.end_time = b.end_time
    /\ a.direction = b.direction

\* the two calls read the clock in the same minute (read_transaction_log
\* does not read it)
SameMinute(a, b) ==
    a.op = "read_summary_log" => MinuteOf(a.now[1]) = MinuteOf(b.now[1])

\* the producer wrote nothing from the moment a was called to the moment b
\* returned
NothingWritten(a, b) == a.writes[1] = b.writes[2]

\* C16: no step of a read changes a file of the directory; two reads made
\* with the same arguments, in the same minute of the clock, with nothing
\* written to the directory from the call of the first to the return of the
\* second, return the same result, whatever reads were made between them
\* and whatever the second of the minute; and a code has the same label in
\* every record of every read.
C16_ReadsArePure ==
    /\ [][rd' # rd => files' = files]_vars
    /\ [](\A i \in 1..Len(history) : \A j \in 1..Len(history) :
             (/\ i < j
              /\ SameRead(history[i], history[j])
              /\ SameMinute(history[i], history[j])
              /\ NothingWritten(history[i], history[j]))
             => history[j].out = history[i].out)
    /\ [](\A i \in 1..Len(history) : \A j \in 1..Len(history) :
             \A k \in 1..Len(history[i].out.records) :
                \A l \in 1..Len(history[j].out.records) :
                   history[i].out.records[k].ksd_code = history[j].out.records[l].ksd_code
                   => history[i].out.records[k].business_name
                        = history[j].out.records[l].business_name)

\* C16 witness: the send summary was read and gave two records; a
\* transaction query was made and gave two; the send summary was read again,
\* later in the same minute, nothing having been written, and gave the same
\* result; then the producer rewrote the file, and the directory is no longer
\* the one the reads were made over.
C16_Witness ==
    /\ Len(history) = 3
    /\ history[1].op = "read_summary_log"
    /\ Len(history[1].out.records) = 2
    /\ history[2].op = "read_transaction_log"
    /\ Len(history[2].out.records) = 2
    /\ SameRead(history[1], history[3])
    /\ history[3].now # history[1].now
    /\ SameMinute(history[1], history[3])
    /\ NothingWritten(history[1], history[3])
    /\ history[3].out = history[1].out
    /\ produced > history[3].writes[2]
    /\ files[SummaryFileOf(TRUE, history[1].now[1])].text = SumSigned

\* the files the call read: <<turn of the loop, prefix>> for every existing
\* file of a prefix of the filter
FilesRead ==
    {x \in LoopTimes(ret.start_time, ret.end_time) \X FilterPrefixes(ret.direction) :
        Exists(ret.seen, TranFileOf(x[2], x[1]))}

\* the lines the call read: <<turn of the loop, prefix, line number>>
LinesRead ==
    UNION {{<<x[1], x[2], l>> : l \in 1..Len(LinesOf(ret.seen, TranFileOf(x[2], x[1])))} :
           x \in FilesRead}

\* the natural order: by ascending minute, within a minute the send file
\* before the receive file, within a file by line number
Before(a, b) ==
    \/ DtLess(a[1], b[1])
    \/ a[1] = b[1] /\ a[2] = "s" /\ b[2] = "r"
    \/ a[1] = b[1] /\ a[2] = b[2] /\ a[3] < b[3]

PlaceOf(o) == Cardinality({x \in LinesRead : Before(x, o)}) + 1

\* C17: a transaction read that did not fail, and read every file whole,
\* returns one record per line of the files it read, and the record of a
\* line stands at the line's place in the natural order (ascending minute,
\* send file before receive file, line order), wherever its timestamp would
\* put it.
C17_NaturalOrder ==
    (IsTranRead /\ ErrorsLogged = 0 /\ ret.torn = {})
    => /\ Len(ret.out.records) = Cardinality(LinesRead)
       /\ \A o \in LinesRead :
             ReturnedTransactions[PlaceOf(o)]
               = FileTransactions(ret.seen, TranFileOf(o[2], o[1]))[o[3]]

\* C17 witness: a read over two minutes returned the records of the first
\* minute's receive file before those of the second minute's send file, and
\* within the first minute the send file's record of second 40 before the
\* receive file's record of second 20.
C17_Witness ==
    /\ IsTranRead
    /\ ret.direction = None
    /\ ret.start_time = M0
    /\ ret.end_time = ClockValues[2]
    /\ ret.torn = {}
    /\ Len(ret.out.records) = 6
    /\ ret.out.records[2].direction = SEND
    /\ ret.out.records[3].direction = RECV
    /\ DtLess(ret.out.records[3].timestamp, ret.out.records[2].timestamp)
    /\ ret.out.records[4].timestamp.minute = M0.minute
    /\ ret.out.records[5].timestamp.minute = M1.minute
    /\ ret.out.records[5].direction = SEND

\* the timestamp on a line of a well-formed transaction file
StampOnLine(dir, name, l) == strptime(split(strip(LinesOf(dir, name)[l]), ":")[1]).val

\* C18 as claimed: every record a transaction read returns has a timestamp
\* from the start of the minute of start_time to the end of the minute of
\* end_time.
C18_TimestampsWithinRange ==
    IsTranRead =>
       \A i \in 1..Len(ret.out.records) :
          /\ DtLeq(MinuteOf(ret.start_time), ret.out.records[i].timestamp)
          /\ DtLess(ret.out.records[i].timestamp, AddMinute(MinuteOf(ret.end_time)))

\* C18 amended: every record a transaction read returns carries the
\* timestamp written on its line, and every line of every file the read
\* opened gives a record: the timestamp of a line is not compared with the
\* range, so that a file named for a minute of the range that holds a line
\* stamped outside the range gives a record outside the range.
C18_TimestampsAreThoseOfTheFiles ==
    (IsTranRead /\ ErrorsLogged = 0 /\ ret.torn = {})
    => /\ Len(ret.out.records) = Cardinality(LinesRead)
       /\ \A o \in LinesRead :
             ret.out.records[PlaceOf(o)].timestamp
               = StampOnLine(ret.seen, TranFileOf(o[2], o[1]), o[3])

\* C18 witness: the file named for the minute of the query holds one line,
\* stamped 2024-02-29 12:00:00, and the read of that minute alone returned
\* it, ten months before the range.
C18_Witness ==
    /\ IsTranRead
    /\ ret.start_time = M0
    /\ ret.end_time = M0
    /\ ret.direction = SEND
    /\ Exists(ret.seen, TranFileOf("s", M0))
    /\ ret.seen[TranFileOf("s", M0)].text = TranOld(M0)
    /\ ErrorsLogged = 0
    /\ Len(ret.out.records) = 1
    /\ ret.out.records[1].timestamp = DateTime(2024, 2, 29, 12, 0, 0)
    /\ DtLess(ret.out.records[1].timestamp, MinuteOf(ret.start_time))

\* the fourth field of a line of a well-formed transaction file
DirectionOnLine(dir, name, l) == split(strip(LinesOf(dir, name)[l]), ":")[4]

\* C19 as claimed: under filter SEND every returned record has direction
\* SEND, under filter RECV direction RECV, whatever the files hold.
C19_FilterFixesDirection ==
    (IsTranRead /\ ret.direction # None)
    => \A i \in 1..Len(ret.out.records) : ret.out.records[i].direction = ret.direction

\* C19 amended: under filter SEND the read opens s-prefixed files only, under
\* filter RECV r-prefixed ones only, and the direction of a returned record
\* is the fourth field of its line, whatever the prefix of the file it was
\* read from; the records are all SEND (all RECV) when the lines of the
\* files read all say so.
C19_DirectionIsThatOfTheLine ==
    IsTranRead
    => /\ \A n \in DOMAIN ret.seen :
             /\ n[1] \in FilterPrefixes(ret.direction)
             /\ n[2] = ".tran.ksd653.log."
       /\ (ErrorsLogged = 0 /\ ret.torn = {}) =>
             /\ Len(ret.out.records) = Cardinality(LinesRead)
             /\ \A o \in LinesRead :
                   ret.out.records[PlaceOf(o)].direction
                     = DirectionOnLine(ret.seen, TranFileOf(o[2], o[1]), o[3])
             /\ (\A o \in LinesRead :
                    DirectionOnLine(ret.seen, TranFileOf(o[2], o[1]), o[3]) = ret.direction)
                   => \A i \in 1..Len(ret.out.records) :
                         ret.out.records[i].direction = ret.direction

\* C19 witness: the s-prefixed file of the minute holds two lines that say
\* RECV, and the read with filter SEND returned them with direction RECV.
C19_Witness ==
    /\ IsTranRead
    /\ ret.direction = SEND
    /\ ret.start_time = M0
    /\ ret.end_time = M0
    /\ Exists(ret.seen, TranFileOf("s", M0))
    /\ ReadWhole(TranFileOf("s", M0))
    /\ ret.seen[TranFileOf("s", M0)].text = TranRecv(M0)
    /\ Len(ret.out.records) = 2
    /\ ret.out.records[1].direction = RECV
    /\ ret.out.records[2].direction = RECV

\* the four names a run of the generator writes for minute current_time
GeneratedNames(current_time) ==
    {SummaryFileName("s", current_time), SummaryFileName("r", current_time),
     TranFileName("s", current_time), TranFileName("r", current_time)}

\* the text the running generator is about to write to the file it has open
TextOfRun ==
    IF gen.pc = 49 THEN send_summary_text
    ELSE IF gen.pc = 53 THEN recv_summary_text
    ELSE IF gen.pc = 74 THEN transactions_text[SEND, gen.current_time[1], gen.rnd[1]]
    ELSE transactions_text[RECV, gen.current_time[1], gen.rnd[1]]

\* the codes on the lines of a summary file
CodesOf(dir, name) == [i \in 1..Len(LinesOf(dir, name)) |-> split(strip(LinesOf(dir, name)[i]), ":")[1]]

\* a summary file of exactly ten lines with the codes 631..640, each once
TenDistinctCodes(dir, name) ==
    LET codes == CodesOf(dir, name)
    IN  /\ Len(codes) = 10
        /\ {codes[i] : i \in 1..10} = DOMAIN KSD_BUSINESS_NAMES
        /\ \A i \in 1..10 : \A j \in 1..10 : codes[i] = codes[j] => i = j

\* C20: however many times the generator has run, every summary file it
\* has written holds exactly 10 lines with the codes 631..640 each once and
\* every transaction file it has written exactly 20 lines; a statement of
\* the generator that changes the directory changes one file only, one of
\* the four of the minute the run was started in: opening it leaves it
\* empty whatever it held before, and writing it leaves in it the text of
\* this run and nothing else.
C20_GeneratorOverwrites ==
    /\ [](\A n \in DOMAIN files :
             Generated(n) =>
                IF n[2] = ".tran.ksd653.log." THEN Len(LinesOf(files, n)) = GenCount
                ELSE TenDistinctCodes(files, n))
    /\ [][files' # files =>
            \E n \in GeneratedNames(gen.current_time[1]) :
               /\ DOMAIN files' = DOMAIN files \cup {n}
               /\ \A x \in DOMAIN files \ {n} : files'[x] = files[x]
               /\ IF gen.pc \in {48, 52, 73, 77}
                    THEN files'[n].text = <<>>
                  ELSE n \in OpenByGenerator /\ files'[n].text = TextOfRun]_vars

\* C20 witness: the generator has run twice for the same minute and the
\* directory holds the four files of that minute only, the send transaction
\* file with 20 lines.
C20_Witness ==
    /\ genRuns = 2
    /\ gen = GenIdle
    /\ DOMAIN files = GeneratedNames(clock)
    /\ \A n \in DOMAIN files : Generated(n)
    /\ Len(LinesOf(files, TranFileName("s", clock))) = GenCount
    /\ TenDistinctCodes(files, SummaryFileName("r", clock))

====

